---- MODULE Spec2Model ----
(***************************************************************************)
(* Model of the av1-top job execution engine.                              *)
(*                                                                         *)
(*   Spec         the scheduler of av1d (main, run_daemon,                 *)
(*                process_all_files, handle_filesystem_event) and the      *)
(*                per-file workflow process_file with its job record.      *)
(*   SpecReplace  replace_file_atomic, one step per file-system call,      *)
(*                with injected call failures and crashes.                 *)
(*   SpecGate     check_size_gate as a function of the two sizes and the   *)
(*                factor.                                                  *)
(*   SpecWorkflow process_file step by step on one source path, with the   *)
(*                files beside the source and the job's durable record,    *)
(*                for workflows run one after the other.                   *)
(*   SpecStore    save_job_state and load_all_jobs on one jobs directory,  *)
(*                one step per file-system call, with crashes.             *)
(*   SpecSupervise execute_transcode: the loop over the encoder's stderr   *)
(*                lines (retention, progress parsing) and the result.      *)
(*   SpecHeuristics choose_quality, choose_surface and is_webrip_like on   *)
(*                drawn inputs.                                            *)
(*   SpecCommand  from_metadata, build_ffmpeg_command and                  *)
(*                build_transcode_command, two builds side by side.        *)
(*   SpecLibrary  the files of one watched directory under the initial     *)
(*                scan, the event handler and concurrent workflows, with   *)
(*                the paths each workflow derives from its source.         *)
(*   SpecWatchdog execute_transcode's watchdog thread beside the           *)
(*                supervising thread and the encoder process.              *)
(*   SpecBatch    process_all_files in one-shot mode for every accepted    *)
(*                --concurrent value, with fair scheduling.                *)
(***************************************************************************)
EXTENDS Integers, Sequences, FiniteSets, TLC

VARIABLES
    config,      \* the CLI arguments read after start-up: once_mode, max_concurrent, dry_run
    main_pc,     \* position of main / process_all_files / run_daemon
    files,       \* process_all_files: the Vec returned by scan_directories
    next_file,   \* process_all_files: index of the next element of the for loop
    set,         \* process_all_files: the JoinSet (spawned, not yet joined tasks)
    results,     \* process_all_files: ProcessingResults counters
    shutdown,    \* shutdown::SHUTDOWN_REQUESTED
    processing,  \* run_daemon: the HashSet of paths being processed
    wf,          \* the spawned tasks, one per slot, each running process_file
    last_event,  \* what the last handle_filesystem_event call did, and for which path
    fs,          \* replace_file_atomic: contents of the original, candidate and backup paths
    rp,          \* replace_file_atomic: position, inputs and result of the call
    gate_in,     \* check_size_gate: the inputs of the call
    gate_out,    \* check_size_gate: the returned value
    disk,        \* process_file: the source and the files derived from its path
    job,         \* process_file: the record save_job_state last wrote for the workflow's job
    run,         \* process_file: position, observations and result of the workflow
    src,         \* process_file: what the workflow has read of the source file
    hist,        \* process_file: which earlier workflow was rejected, which wrote the marker
    jobs_dir,    \* jobs directory: the files in it
    store,       \* save_job_state / load_all_jobs: position and arguments of the call
    loaded,      \* load_all_jobs: the returned value
    sup,         \* execute_transcode: the stderr loop, what it kept and delivered, the result
    heur,        \* heuristics: the inputs of a call and the returned values
    cmd,         \* command builders: the inputs of two builds and the argument vectors
    lib,         \* one watched directory: its files, pending events, workflows in flight
    wd           \* execute_transcode: watchdog thread, supervising thread, encoder process

sched_vars == <<config, main_pc, files, next_file, set, results, shutdown,
                processing, wf, last_event>>
replace_vars == <<fs, rp>>
gate_vars == <<gate_in, gate_out>>
workflow_vars == <<disk, job, run, src, hist>>
store_vars == <<jobs_dir, store, loaded>>
engine_vars == <<sup, heur, cmd, lib, wd>>
vars == <<config, main_pc, files, next_file, set, results, shutdown,
          processing, wf, last_event, fs, rp, gate_in, gate_out,
          disk, job, run, src, hist, jobs_dir, store, loaded, sup, heur, cmd,
          lib, wd>>

(***************************************************************************)
(* Bounds of the model.                                                    *)
(***************************************************************************)
\* Number of task slots: the largest --concurrent value explored, and the
\* largest number of event workflows the model lets be alive at once.
MaxTasks == 2
\* Longest watched_directories list explored.
MaxWatched == 2

Slots == 1..MaxTasks

\* Media files of the library, and the directories that can be watched:
\* d1 holds p1, d2 holds p2. Two entries of watched_directories overlap when
\* they name the same directory.
Paths == {"p1", "p2"}
Dirs == {"d1", "d2"}

JobTerminal == {"Success", "Failed", "Skipped"}

(***************************************************************************)
(* scan_directories                                                        *)
(***************************************************************************)
\* scan_directory_recursive: the media files below one directory.
scan_directory_recursive(dir) ==
    IF dir = "d1" THEN <<"p1">> ELSE <<"p2">>

RECURSIVE scan_directories(_)
\* scan_directories: the listings of the watched directories, appended in
\* order into one Vec; nothing removes a path that is listed twice.
scan_directories(watched) ==
    IF watched = <<>> THEN <<>>
    ELSE scan_directory_recursive(Head(watched)) \o scan_directories(Tail(watched))

WatchedLists ==
    UNION {[1..n -> Dirs] : n \in 1..MaxWatched}

(***************************************************************************)
(* Tasks                                                                   *)
(***************************************************************************)
\* A task slot: the task's position in process_file, the path it was spawned
\* for, who spawned it, the statuses save_job_state has written for its job
\* (oldest first), whether process_file returned because a save_job_state call
\* failed, and the value process_file returned.
IdleTask ==
    [pc |-> "idle", path |-> "none", origin |-> "none", saved |-> <<>>,
     save_failed |-> FALSE, result |-> "none"]

\* A task that has just been spawned on process_file(path).
NewTask(path, origin) ==
    [pc |-> "start", path |-> path, origin |-> origin, saved |-> <<>>,
     save_failed |-> FALSE, result |-> "none"]

\* process_file is executing in the task of slot s.
Live(s) == wf[s].pc \in {"start", "stable", "encoding"}

IdleSlots == {s \in Slots : wf[s].pc = "idle"}

LowestIdle == CHOOSE s \in IdleSlots : \A t \in IdleSlots : s <= t

\* What one stretch of process_file does to its task: the position it reaches,
\* the statuses its save_job_state calls wrote, whether it returned because
\* such a call failed, and the value returned.
\* process_file returns result.
Returned(result, saves) ==
    [pc |-> "returned", result |-> result, saves |-> saves, save_failed |-> FALSE]

\* process_file returns the error of a failed save_job_state call.
SaveFailed(saves) ==
    [pc |-> "returned", result |-> "Err", saves |-> saves, save_failed |-> TRUE]

\* process_file goes on, to its next suspension point.
Suspended(pc, saves) ==
    [pc |-> pc, result |-> "none", saves |-> saves, save_failed |-> FALSE]

\* The task keeps a returned value until it is joined or ends.
Step(task, out) ==
    [task EXCEPT !.pc = out.pc, !.result = out.result,
                 !.saved = task.saved \o out.saves,
                 !.save_failed = out.save_failed]

InitSched ==
    /\ config \in [once_mode : BOOLEAN, max_concurrent : Slots, dry_run : BOOLEAN]
    /\ main_pc = "scan"
    /\ files = <<>>
    /\ next_file = 1
    /\ set = {}
    /\ results = [success |-> 0, skipped |-> 0, failed |-> 0]
    /\ shutdown = FALSE
    /\ processing = {}
    /\ wf = [s \in Slots |-> IdleTask]
    /\ last_event = <<"none", "none">>

\* A file system of three paths: each holds <<bytes>>, or <<>> when no file is
\* there. The backup name carries a fresh UUID: nothing is there beforehand.
Absent == <<>>

File(bytes) == <<bytes>>

IdleReplace ==
    /\ fs = [original |-> Absent, candidate |-> Absent, backup |-> Absent]
    /\ rp = [pc |-> "unused"]

IdleGate ==
    /\ gate_in = [original |-> 0, new |-> 0, factor |-> 0]
    /\ gate_out = [tag |-> "unused"]

\* process_file is not being followed.
IdleWorkflow ==
    /\ disk = [source |-> "unused"]
    /\ job = [status |-> "unused"]
    /\ run = [pc |-> "unused"]
    /\ src = [file_size |-> "unused"]
    /\ hist = [rejected_run |-> 0, marked_run |-> 0]

\* The jobs directory is not being followed.
IdleEngine ==
    /\ sup = [pc |-> "unused"]
    /\ heur = [pc |-> "unused"]
    /\ cmd = [pc |-> "unused"]
    /\ lib = [pc |-> "unused"]
    /\ wd = [pc |-> "unused"]

IdleStore ==
    /\ jobs_dir = [exists |-> FALSE]
    /\ store = [pc |-> "unused"]
    /\ loaded = [result |-> "unused"]

Init ==
    /\ InitSched
    /\ IdleReplace
    /\ IdleGate
    /\ IdleWorkflow
    /\ IdleStore
    /\ IdleEngine

(***************************************************************************)
(* shutdown.rs                                                             *)
(***************************************************************************)
\* handle_signal / request_shutdown: the flag is set, and never cleared.
RequestShutdown ==
    /\ main_pc # "exited"
    /\ ~shutdown
    /\ shutdown' = TRUE
    /\ UNCHANGED <<config, main_pc, files, next_file, set, results, processing,
                   wf, last_event, replace_vars, gate_vars,
                   workflow_vars, store_vars,
                   engine_vars>>

(***************************************************************************)
(* process_file: one workflow, in the task of slot s. One action per       *)
(* stretch of code between two suspension points of the task.              *)
(***************************************************************************)
\* Lines 353-366: skip marker, fs::metadata, should_skip_for_size. In every
\* stretch the task may also panic: it completes, and whoever joins it gets a
\* JoinError instead of the value of process_file.
PreflightOutcomes == {"marker", "io_error", "too_small", "go", "panic"}

Preflight(o) ==
    CASE o = "marker"    -> Returned("Skipped", <<>>)
      [] o = "panic"     -> Returned("Panicked", <<>>)
      [] o = "io_error"  -> Returned("Err", <<>>)
      [] o = "too_small" -> Returned("Skipped", <<>>)
      [] OTHER           -> Suspended("stable", <<>>)

\* The task is polled for the first time and runs to the first sleep of
\* is_file_stable (line 520), or returns before it.
WfStart(s) ==
    /\ wf[s].pc = "start"
    /\ \E out \in {Preflight(o) : o \in PreflightOutcomes} :
          wf' = [wf EXCEPT ![s] = Step(@, out)]
    /\ UNCHANGED <<config, main_pc, files, next_file, set, results, shutdown,
                   processing, last_event, replace_vars, gate_vars,
                   workflow_vars, store_vars,
                   engine_vars>>

\* Lines 368-412: the size samples of is_file_stable, then run_ffprobe,
\* has_video, is_already_av1, dry_run; then the job is created and saved
\* Pending, and saved Running before the encoder is started. save_ok[i] tells
\* whether the i-th save_job_state call succeeds.
StableOutcomes == {"io_error", "changing", "stable", "panic"}
ProbeOutcomes == {"probe_error", "no_video", "already_av1", "transcodable"}

ProbeAndCreate(st, o, dry_run, save_ok) ==
    CASE st = "io_error"   -> Returned("Err", <<>>)
      [] st = "panic"      -> Returned("Panicked", <<>>)
      [] st = "changing"   -> Returned("Skipped", <<>>)
      [] o = "probe_error" -> Returned("Err", <<>>)
      [] o = "no_video"    -> Returned("Skipped", <<>>)
      [] o = "already_av1" -> Returned("Skipped", <<>>)
      [] OTHER ->
           IF dry_run THEN Returned("Skipped", <<>>)
           ELSE IF ~save_ok[1] THEN SaveFailed(<<>>)
           ELSE IF ~save_ok[2] THEN SaveFailed(<<"Pending">>)
           ELSE Suspended("encoding", <<"Pending", "Running">>)

\* The task is resumed after the sleeps of is_file_stable and runs to the
\* await of the blocking execute_transcode call (line 443), or returns
\* before it. A runtime that is gone resumes no task.
WfStable(s) ==
    /\ wf[s].pc = "stable"
    /\ main_pc # "exited"
    /\ \E out \in {ProbeAndCreate(st, o, config.dry_run, save_ok) :
                         st \in StableOutcomes, o \in ProbeOutcomes,
                         save_ok \in [1..2 -> BOOLEAN]} :
          wf' = [wf EXCEPT ![s] = Step(@, out)]
    /\ UNCHANGED <<config, main_pc, files, next_file, set, results, shutdown,
                   processing, last_event, replace_vars, gate_vars,
                   workflow_vars, store_vars,
                   engine_vars>>

\* Lines 443-510: what follows the await of execute_transcode.
\*   enc   what execute_transcode gave: an Err (spawn or stderr read failure),
\*         or a TranscodeResult that timed out, failed or succeeded
\*   gate  what check_size_gate gave
\*   io    which of the later calls succeed
EncodeOutcomes == {"spawn_error", "timeout", "ffmpeg", "ok", "panic"}
GateOutcomes == {"io_error", "Passed", "Failed"}
IoCalls == {"save", "cleanup", "replace", "why", "marker"}

PostEncode(enc, gate, io) ==
    IF enc = "spawn_error" THEN Returned("Err", <<>>)
    ELSE IF enc = "panic" THEN Returned("Panicked", <<>>)
    ELSE IF enc \in {"timeout", "ffmpeg"} THEN
        IF ~io["save"] THEN SaveFailed(<<>>)
        ELSE Returned("Err", <<"Failed">>)
    ELSE IF gate = "io_error" THEN Returned("Err", <<>>)
    ELSE IF gate = "Passed" THEN
        IF ~io["replace"] THEN Returned("Err", <<>>)
        ELSE IF ~io["save"] THEN SaveFailed(<<>>)
        ELSE Returned("Success", <<"Success">>)
    ELSE
        IF ~io["why"] THEN Returned("Err", <<>>)
        ELSE IF ~io["marker"] THEN Returned("Err", <<>>)
        ELSE IF ~io["cleanup"] THEN Returned("Err", <<>>)
        ELSE IF ~io["save"] THEN SaveFailed(<<>>)
        ELSE Returned("Skipped", <<"Skipped">>)

PostEncodeResults ==
    {PostEncode(enc, gate, io) :
        enc \in EncodeOutcomes, gate \in GateOutcomes, io \in [IoCalls -> BOOLEAN]}

\* The task is resumed with the value of execute_transcode and runs to the
\* end of process_file. A runtime that is gone resumes no task.
WfEncode(s) ==
    /\ wf[s].pc = "encoding"
    /\ main_pc # "exited"
    /\ \E out \in PostEncodeResults :
          wf' = [wf EXCEPT ![s] = Step(@, out)]
    /\ UNCHANGED <<config, main_pc, files, next_file, set, results, shutdown,
                   processing, last_event, replace_vars, gate_vars,
                   workflow_vars, store_vars,
                   engine_vars>>

(***************************************************************************)
(* process_all_files                                                       *)
(***************************************************************************)
\* A match whose last arm counts nothing.
Tally_DropErrors(r, result) ==
    CASE result = "Success" -> [r EXCEPT !.success = @ + 1]
      [] result = "Skipped" -> [r EXCEPT !.skipped = @ + 1]
      [] OTHER              -> r

\* The match on a joined task's result, lines 287-291 and 313-317: Ok(Ok(Success)),
\* Ok(Ok(Skipped(_))), and Ok(Err(_)) | Err(_) for an error and for a JoinError.
Tally(r, result) ==
    CASE result = "Success" -> [r EXCEPT !.success = @ + 1]
      [] result = "Skipped" -> [r EXCEPT !.skipped = @ + 1]
      [] OTHER              -> [r EXCEPT !.failed = @ + 1]

\* set.join_next().await gives the result of a task that has completed.
JoinNext(s) ==
    /\ s \in set
    /\ wf[s].pc = "returned"
    /\ set' = set \ {s}
    /\ results' = Tally(results, wf[s].result)
    /\ wf' = [wf EXCEPT ![s] = IdleTask]

\* Lines 263-281: scan, and start of the for loop. watched_directories is read
\* here and nowhere else: any list of up to MaxWatched directories.
ProcessAllFilesScan ==
    /\ main_pc = "scan"
    /\ \E watched_directories \in WatchedLists :
          files' = scan_directories(watched_directories)
    /\ next_file' = 1
    /\ set' = {}
    /\ results' = [success |-> 0, skipped |-> 0, failed |-> 0]
    /\ main_pc' = "batch_loop"
    /\ UNCHANGED <<config, shutdown, processing, wf, last_event, replace_vars, gate_vars,
                   workflow_vars, store_vars,
                   engine_vars>>

\* Line 285, a limit one too high: set.len() > max_concurrent.
AtLimit_Above(len, max_concurrent) == len > max_concurrent

\* Line 285: set.len() >= max_concurrent.
AtLimit(len, max_concurrent) == len >= max_concurrent

\* Lines 285-293: at the concurrency limit, wait for one task to finish.
ProcessAllFilesWaitSlot ==
    /\ main_pc = "batch_loop"
    /\ AtLimit(Cardinality(set), config.max_concurrent)
    /\ \E s \in set : JoinNext(s)
    /\ UNCHANGED <<config, main_pc, files, next_file, shutdown, processing, last_event, replace_vars, gate_vars,
                   workflow_vars, store_vars,
                   engine_vars>>

\* Lines 296-299: shutdown is polled before each spawn; the loop is left.
ProcessAllFilesBreak ==
    /\ main_pc = "batch_loop"
    /\ ~AtLimit(Cardinality(set), config.max_concurrent)
    /\ shutdown
    /\ main_pc' = "batch_drain"
    /\ UNCHANGED <<config, files, next_file, set, results, shutdown, processing,
                   wf, last_event, replace_vars, gate_vars,
                   workflow_vars, store_vars,
                   engine_vars>>

\* Lines 301-308: spawn process_file for the next file of the Vec.
ProcessAllFilesSpawn ==
    /\ main_pc = "batch_loop"
    /\ ~AtLimit(Cardinality(set), config.max_concurrent)
    /\ ~shutdown
    /\ LET s == LowestIdle IN
          /\ wf' = [wf EXCEPT ![s] = NewTask(files[next_file], "batch")]
          /\ set' = set \cup {s}
    /\ next_file' = next_file + 1
    /\ main_pc' = IF next_file = Len(files) THEN "batch_drain" ELSE "batch_loop"
    /\ UNCHANGED <<config, files, results, shutdown, processing, last_event, replace_vars, gate_vars,
                   workflow_vars, store_vars,
                   engine_vars>>

\* Lines 311-318: wait for the remaining tasks.
ProcessAllFilesDrain ==
    /\ main_pc = "batch_drain"
    /\ \E s \in set : JoinNext(s)
    /\ UNCHANGED <<config, main_pc, files, next_file, shutdown, processing, last_event, replace_vars, gate_vars,
                   workflow_vars, store_vars,
                   engine_vars>>

\* Lines 320-326, and main lines 108-116 / run_daemon line 148: the call
\* returns; one-shot mode ends, daemon mode enters its loop.
ProcessAllFilesReturn ==
    /\ main_pc = "batch_drain"
    /\ set = {}
    /\ main_pc' = IF config.once_mode THEN "exited" ELSE "daemon_top"
    /\ files' = <<>>
    /\ next_file' = 1
    /\ results' = [success |-> 0, skipped |-> 0, failed |-> 0]
    /\ UNCHANGED <<config, set, shutdown, processing, wf, last_event,
                   replace_vars, gate_vars,
                   workflow_vars, store_vars,
                   engine_vars>>

(***************************************************************************)
(* run_daemon and handle_filesystem_event                                  *)
(***************************************************************************)
\* Lines 154-157: shutdown is polled at the top of the loop.
DaemonLoopTop ==
    /\ main_pc = "daemon_top"
    /\ main_pc' = IF shutdown THEN "exited" ELSE "daemon_recv"
    /\ last_event' = <<"none", "none">>
    /\ UNCHANGED <<config, files, next_file, set, results, shutdown, processing,
                   wf, replace_vars, gate_vars,
                   workflow_vars, store_vars,
                   engine_vars>>

\* Line 203: proc.contains(&path), under the lock taken on line 202.
InFlight_Never(proc, path) == FALSE

InFlight(proc, path) == path \in proc

\* Lines 197-237 for an event carrying one media path: test and insert under
\* one lock acquisition, then tokio::spawn of the task. Nothing here reads
\* max_concurrent or the shutdown flag.
handle_filesystem_event(path) ==
    IF InFlight(processing, path)
    THEN /\ last_event' = <<"ignored", path>>
         /\ UNCHANGED <<processing, wf, replace_vars, gate_vars,
                   workflow_vars, store_vars,
                   engine_vars>>
    ELSE /\ processing' = processing \cup {path}
         /\ wf' = [wf EXCEPT ![LowestIdle] = NewTask(path, "event")]
         /\ last_event' = <<"spawned", path>>

\* Lines 160-170: rx.recv_timeout delivers an event. (The model has MaxTasks
\* task slots: an event that would need one more is not delivered.)
DaemonRecvEvent ==
    /\ main_pc = "daemon_recv"
    /\ \E path \in Paths :
          /\ InFlight(processing, path) \/ IdleSlots # {}
          /\ handle_filesystem_event(path)
    /\ main_pc' = "daemon_top"
    /\ UNCHANGED <<config, files, next_file, set, results, shutdown,
                   replace_vars, gate_vars,
                   workflow_vars, store_vars,
                   engine_vars>>

\* Lines 174-176: no event within the second.
DaemonRecvTimeout ==
    /\ main_pc = "daemon_recv"
    /\ main_pc' = "daemon_top"
    /\ UNCHANGED <<config, files, next_file, set, results, shutdown, processing,
                   wf, last_event, replace_vars, gate_vars,
                   workflow_vars, store_vars,
                   engine_vars>>

\* Lines 218-231: process_file has returned in a task spawned for an event; the
\* result is logged and the path is removed from the set, the task ends. A
\* panic unwinds the task before line 231 is reached.
EventTaskEnd(s) ==
    /\ wf[s].pc = "returned"
    /\ wf[s].origin = "event"
    /\ processing' = IF wf[s].result = "Panicked" THEN processing
                      ELSE processing \ {wf[s].path}
    /\ wf' = [wf EXCEPT ![s] = IdleTask]
    /\ UNCHANGED <<config, main_pc, files, next_file, set, results, shutdown,
                   last_event, replace_vars, gate_vars,
                   workflow_vars, store_vars,
                   engine_vars>>

\* main lines 115-118: run_daemon has returned and main returns, which drops
\* the tokio runtime: a task that is suspended, or was never polled, is
\* dropped where it stands. No code of the task runs after that.
RuntimeDropTask(s) ==
    /\ main_pc = "exited"
    /\ wf[s].pc \in {"start", "stable", "encoding"}
    /\ wf' = [wf EXCEPT ![s] = [@ EXCEPT !.pc = "aborted", !.result = "Aborted"]]
    /\ UNCHANGED <<config, main_pc, files, next_file, set, results, shutdown,
                   processing, last_event, replace_vars, gate_vars,
                   workflow_vars, store_vars,
                   engine_vars>>

Next ==
    \/ RequestShutdown
    \/ ProcessAllFilesScan
    \/ ProcessAllFilesWaitSlot
    \/ ProcessAllFilesBreak
    \/ ProcessAllFilesSpawn
    \/ ProcessAllFilesDrain
    \/ ProcessAllFilesReturn
    \/ DaemonLoopTop
    \/ DaemonRecvEvent
    \/ DaemonRecvTimeout
    \/ \E s \in Slots : WfStart(s)
    \/ \E s \in Slots : WfStable(s)
    \/ \E s \in Slots : WfEncode(s)
    \/ \E s \in Slots : EventTaskEnd(s)
    \/ \E s \in Slots : RuntimeDropTask(s)

Spec == Init /\ [][Next]_vars

(***************************************************************************)
(* process_all_files in one-shot mode, for every --concurrent value        *)
(***************************************************************************)
\* cli.rs 31-33: --concurrent is any usize, 0 included; main.rs 87 passes it
\* on as it is.
InitBatch ==
    /\ config \in [once_mode : {TRUE}, max_concurrent : 0..MaxTasks, dry_run : BOOLEAN]
    /\ main_pc = "scan"
    /\ files = <<>>
    /\ next_file = 1
    /\ set = {}
    /\ results = [success |-> 0, skipped |-> 0, failed |-> 0]
    /\ shutdown = FALSE
    /\ processing = {}
    /\ wf = [s \in Slots |-> IdleTask]
    /\ last_event = <<"none", "none">>
    /\ IdleReplace
    /\ IdleGate
    /\ IdleWorkflow
    /\ IdleStore
    /\ IdleEngine

\* main.rs 108-111 with process_all_files. When the set is empty and
\* set.len() >= max_concurrent, join_next() gives None at once and the while
\* condition of line 285 is tested again: the state does not change.
NextBatch ==
    \/ RequestShutdown
    \/ ProcessAllFilesScan
    \/ ProcessAllFilesWaitSlot
    \/ ProcessAllFilesBreak
    \/ ProcessAllFilesSpawn
    \/ ProcessAllFilesDrain
    \/ ProcessAllFilesReturn
    \/ \E s \in Slots : WfStart(s)
    \/ \E s \in Slots : WfStable(s)
    \/ \E s \in Slots : WfEncode(s)

\* Every task that can run does run, and the main task is polled: each
\* workflow ends.
SpecBatch == InitBatch /\ [][NextBatch]_vars /\ WF_vars(NextBatch)

(***************************************************************************)
(* replace_file_atomic (postprocess.rs)                                    *)
(***************************************************************************)
\* Number of distinct file contents explored.
MaxContent == 3

\* fs::remove_file(path) that leaves the file where it is.
RemoveFile_Noop(f, path) == f

\* A rename that loses the file: `from` is gone, `to` is as it was.
Rename_Drop(f, from, to) == [f EXCEPT ![from] = Absent]

\* A rename that leaves the file at `from` as well.
Rename_Copy(f, from, to) == [f EXCEPT ![to] = f[from]]

\* fs::rename(from, to): `to` gets the file, `from` is gone.
Rename(f, from, to) == [f EXCEPT ![to] = f[from], ![from] = Absent]

\* fs::remove_file(path).
RemoveFile(f, path) == [f EXCEPT ![path] = Absent]

\* The state at the entry of replace_file_atomic(original_path,
\* transcoded_path): the original exists, the candidate may be missing.
InitReplace ==
    /\ \E o \in {File(b) : b \in 1..MaxContent},
          c \in {File(b) : b \in 1..MaxContent} \cup {Absent} :
          /\ fs = [original |-> o, candidate |-> c, backup |-> Absent]
          /\ rp = [pc |-> "rename_original", result |-> "none",
                   original0 |-> o, candidate0 |-> c,
                   rename2_failed |-> FALSE, delete_failed |-> FALSE,
                   restore_failed |-> FALSE, crashed |-> FALSE]
    /\ config = [once_mode |-> TRUE, max_concurrent |-> 1, dry_run |-> FALSE]
    /\ main_pc = "exited"
    /\ files = <<>>
    /\ next_file = 1
    /\ set = {}
    /\ results = [success |-> 0, skipped |-> 0, failed |-> 0]
    /\ shutdown = FALSE
    /\ processing = {}
    /\ wf = [s \in Slots |-> IdleTask]
    /\ last_event = <<"none", "none">>
    /\ IdleGate
    /\ IdleWorkflow
    /\ IdleStore
    /\ IdleEngine

\* Lines 129-131: step 1, rename the original to the backup name; a failure
\* is returned at once.
ReplaceRenameOriginal ==
    /\ rp.pc = "rename_original"
    /\ ~rp.crashed
    /\ \E ok \in BOOLEAN :
          IF ok /\ fs["original"] # Absent
          THEN /\ fs' = Rename(fs, "original", "backup")
               /\ rp' = [rp EXCEPT !.pc = "rename_transcoded"]
          ELSE /\ fs' = fs
               /\ rp' = [rp EXCEPT !.pc = "done", !.result = "Err"]
    /\ UNCHANGED <<sched_vars, gate_vars, workflow_vars, store_vars,
                   engine_vars>>

\* Line 134: step 2, rename the candidate to the original's name.
ReplaceRenameTranscoded ==
    /\ rp.pc = "rename_transcoded"
    /\ ~rp.crashed
    /\ \E ok \in BOOLEAN :
          IF ok /\ fs["candidate"] # Absent
          THEN /\ fs' = Rename(fs, "candidate", "original")
               /\ rp' = [rp EXCEPT !.pc = "remove_backup"]
          ELSE /\ fs' = fs
               /\ rp' = [rp EXCEPT !.pc = "restore", !.rename2_failed = TRUE]
    /\ UNCHANGED <<sched_vars, gate_vars, workflow_vars, store_vars,
                   engine_vars>>

\* Lines 135-144: step 3, delete the backup; a failure is printed as a
\* warning and Ok is returned all the same.
ReplaceRemoveBackup ==
    /\ rp.pc = "remove_backup"
    /\ ~rp.crashed
    /\ \E ok \in BOOLEAN :
          IF ok
          THEN /\ fs' = RemoveFile(fs, "backup")
               /\ rp' = [rp EXCEPT !.pc = "done", !.result = "Ok"]
          ELSE /\ fs' = fs
               /\ rp' = [rp EXCEPT !.pc = "done", !.result = "Ok",
                                    !.delete_failed = TRUE]
    /\ UNCHANGED <<sched_vars, gate_vars, workflow_vars, store_vars,
                   engine_vars>>

\* Lines 145-156: step 2 failed; rename the backup back; a failure of that is
\* printed, and the error of step 2 is returned in both cases.
ReplaceRestore ==
    /\ rp.pc = "restore"
    /\ ~rp.crashed
    /\ \E ok \in BOOLEAN :
          IF ok
          THEN /\ fs' = Rename(fs, "backup", "original")
               /\ rp' = [rp EXCEPT !.pc = "done", !.result = "Err"]
          ELSE /\ fs' = fs
               /\ rp' = [rp EXCEPT !.pc = "done", !.result = "Err",
                                    !.restore_failed = TRUE]
    /\ UNCHANGED <<sched_vars, gate_vars, workflow_vars, store_vars,
                   engine_vars>>

\* The process dies between two file-system calls of replace_file_atomic: the
\* files stay as they are, the call never returns.
ReplaceCrash ==
    /\ rp.pc \in {"rename_original", "rename_transcoded", "remove_backup", "restore"}
    /\ ~rp.crashed
    /\ rp' = [rp EXCEPT !.crashed = TRUE]
    /\ UNCHANGED <<fs, sched_vars, gate_vars, workflow_vars, store_vars,
                   engine_vars>>

NextReplace ==
    \/ ReplaceRenameOriginal
    \/ ReplaceRenameTranscoded
    \/ ReplaceRemoveBackup
    \/ ReplaceRestore
    \/ ReplaceCrash

SpecReplace == InitReplace /\ [][NextReplace]_vars

(***************************************************************************)
(* check_size_gate (postprocess.rs)                                        *)
(***************************************************************************)
\* Largest file size explored, in bytes.
MaxBytes == 5
\* size_gate_factor is explored in steps of 1/FactorScale.
FactorScale == 10

\* An f64 that is the quotient of two integers, kept as the pair; d = 0 is the
\* quotient by zero (an infinity or NaN), which compares false with <=.
Quot(n, d) == [n |-> n, d |-> d]

\* a < b of two f64.
Leq_Strict(a, b) == a.d # 0 /\ b.d # 0 /\ a.n * b.d < b.n * a.d

\* a <= b of two f64.
Leq(a, b) == a.d # 0 /\ b.d # 0 /\ a.n * b.d <= b.n * a.d

\* 1.0 - a.
OneMinus(a) == Quot(a.d - a.n, a.d)

\* Lines 53-71 of check_size_gate, given the two sizes fs::metadata returned.
check_size_gate(original_bytes, new_bytes, size_gate_factor) ==
    LET ratio == Quot(new_bytes, original_bytes) IN
    IF Leq(ratio, size_gate_factor)
    THEN [tag |-> "Passed", original_bytes |-> original_bytes,
          new_bytes |-> new_bytes, savings_ratio |-> OneMinus(ratio)]
    ELSE [tag |-> "Failed", original_bytes |-> original_bytes,
          new_bytes |-> new_bytes, ratio |-> ratio,
          threshold |-> size_gate_factor]

\* Any two sizes and any factor k/FactorScale with 0 < factor <= 1
\* (TranscodeConfig::validate, config.rs lines 94-99).
InitGate ==
    /\ gate_in \in [original : 0..MaxBytes, new : 0..MaxBytes,
                    factor : {Quot(k, FactorScale) : k \in 1..FactorScale}]
    /\ gate_out = [tag |-> "none"]
    /\ config = [once_mode |-> TRUE, max_concurrent |-> 1, dry_run |-> FALSE]
    /\ main_pc = "exited"
    /\ files = <<>>
    /\ next_file = 1
    /\ set = {}
    /\ results = [success |-> 0, skipped |-> 0, failed |-> 0]
    /\ shutdown = FALSE
    /\ processing = {}
    /\ wf = [s \in Slots |-> IdleTask]
    /\ last_event = <<"none", "none">>
    /\ IdleReplace
    /\ IdleWorkflow
    /\ IdleStore
    /\ IdleEngine

\* Lines 45-51: one of the two fs::metadata calls fails.
CheckSizeGateIoError ==
    /\ gate_out.tag = "none"
    /\ gate_out' = [tag |-> "IoError"]
    /\ UNCHANGED <<gate_in, sched_vars, replace_vars, workflow_vars, store_vars,
                   engine_vars>>

\* Lines 45-71: both sizes are read and the verdict is returned.
CheckSizeGate ==
    /\ gate_out.tag = "none"
    /\ gate_out' = check_size_gate(gate_in.original, gate_in.new, gate_in.factor)
    /\ UNCHANGED <<gate_in, sched_vars, replace_vars, workflow_vars, store_vars,
                   engine_vars>>

NextGate ==
    \/ CheckSizeGateIoError
    \/ CheckSizeGate

SpecGate == InitGate /\ [][NextGate]_vars

(***************************************************************************)
(* process_file, step by step (main.rs 344-511)                            *)
(***************************************************************************)
\* Number of workflows run one after the other on the source path.
MaxRuns == 2
\* Largest file size and largest min_file_size_bytes explored.
MaxFileSize == 2
\* Largest number of video streams ffprobe reports.
MaxStreams == 2

\* Codec names as ffprobe may report them.
Codecs == {"h264", "av1", "AV1"}

\* str::to_lowercase on a codec name.
to_lowercase(codec) == IF codec = "AV1" THEN "av1" ELSE codec

\* FileMetadata.video_streams: up to MaxStreams codec names.
StreamLists == UNION {[1..n -> Codecs] : n \in 0..MaxStreams}

\* heuristics.rs line 49.
should_skip_for_size(bytes, min_bytes) == bytes < min_bytes

\* metadata.rs line 119.
has_video(metadata) == Len(metadata.video_streams) # 0

\* A check that finds no stream in the target codec.
is_already_av1_Never(metadata) == FALSE

\* heuristics.rs lines 62-66.
is_already_av1(metadata) ==
    \E i \in 1..Len(metadata.video_streams) :
        to_lowercase(metadata.video_streams[i]) = "av1"

\* A check that finds no marker.
skip_marker_exists_Never(d) == FALSE

\* Lines 354-355: file_path.with_extension("av1skip").exists().
skip_marker_exists(d) == d.marker

\* One reason for both failures.
FailureReason_Same(enc) == "FFmpeg failed"

\* Lines 450 and 459: the JobReason of a failed encode.
FailureReason(enc) == IF enc = "timeout" THEN "Timeout" ELSE "FFmpeg failed"

\* fs::write(path, ..) creates or truncates the file, then writes: when it
\* fails the file may have been created all the same.
WriteOutcomes == {"ok", "failed_not_created", "failed_created"}

WriteFile(exists, outcome) == exists \/ outcome # "failed_not_created"

NoJob == [status |-> "none", reason |-> "none"]

\* What the workflow has read of the source so far.
Unread == [file_size |-> -1, min_bytes |-> -1, stable |-> "unread",
           video_streams |-> <<"unread">>]

\* A save that writes the status alone.
SaveRecord_StatusOnly(r, status) ==
    Append(r.saved, [status |-> status, started_at |-> FALSE, finished_at |-> FALSE])

\* save_job_state(&job, ..) in process_file: the record written for the job
\* of run r, with the job's status and whether its started_at and
\* finished_at are Some; saved lists the records written for the job's id.
SaveRecord(r, status) ==
    Append(r.saved, [status |-> status, started_at |-> r.started_at,
                     finished_at |-> r.finished_at])

\* The workflow at the entry of process_file; started_at and finished_at are
\* the fields of the job TranscodeJob::new makes (job.rs 94-108).
NewRun(n, d) ==
    [pc |-> "preflight", n |-> n, source0 |-> d.source, marker0 |-> FALSE,
     probe |-> "none", spawned |-> FALSE, enc |-> "none", gate |-> "none",
     failed_call |-> "none", result |-> "none",
     outcome |-> [success |-> FALSE, timed_out |-> FALSE],
     started_at |-> FALSE, finished_at |-> FALSE, saved |-> <<>>]

\* process_file returns result; failed_call names the call whose error is
\* returned, if one is.
Exit(r, result, failed_call) ==
    [r EXCEPT !.pc = "exited", !.result = result, !.failed_call = failed_call]

\* The source has its original bytes and nothing lies beside it; no workflow
\* has run. dry_run is the command-line flag.
InitWorkflow ==
    /\ disk = [source |-> "original", marker |-> FALSE, why |-> FALSE,
               candidate |-> FALSE]
    /\ job = NoJob
    /\ run = [NewRun(0, disk) EXCEPT !.pc = "exited"]
    /\ src = Unread
    /\ hist = [rejected_run |-> 0, marked_run |-> 0]
    /\ config \in [once_mode : {TRUE}, max_concurrent : {1}, dry_run : BOOLEAN]
    /\ main_pc = "exited"
    /\ files = <<>>
    /\ next_file = 1
    /\ set = {}
    /\ results = [success |-> 0, skipped |-> 0, failed |-> 0]
    /\ shutdown = FALSE
    /\ processing = {}
    /\ wf = [s \in Slots |-> IdleTask]
    /\ last_event = <<"none", "none">>
    /\ IdleReplace
    /\ IdleGate
    /\ IdleStore
    /\ IdleEngine

\* Lines 344-366: a workflow is started on the source path, by a scan or by an
\* event; skip marker, fs::metadata, should_skip_for_size.
WorkflowPreflight ==
    /\ run.pc = "exited"
    /\ run.n < MaxRuns
    /\ disk.source # "missing"
    /\ job' = NoJob
    /\ LET r == NewRun(run.n + 1, disk) IN
       IF skip_marker_exists(disk)
       THEN /\ run' = Exit([r EXCEPT !.marker0 = TRUE], "Skipped", "none")
            /\ src' = Unread
       ELSE \E metadata_ok \in BOOLEAN, file_size \in 0..MaxFileSize,
               min_bytes \in 1..MaxFileSize :
               IF ~metadata_ok
               THEN /\ run' = Exit(r, "Err", "metadata")
                    /\ src' = Unread
               ELSE /\ src' = [Unread EXCEPT !.file_size = file_size,
                                             !.min_bytes = min_bytes]
                    /\ run' = IF should_skip_for_size(file_size, min_bytes)
                              THEN Exit(r, "Skipped", "none")
                              ELSE [r EXCEPT !.pc = "stability"]
    /\ UNCHANGED <<disk, hist, sched_vars, replace_vars, gate_vars, store_vars,
                   engine_vars>>

\* Lines 368-371: is_file_stable.
WorkflowStability ==
    /\ run.pc = "stability"
    /\ \E io_ok \in BOOLEAN, stable \in BOOLEAN :
          IF ~io_ok
          THEN /\ run' = Exit(run, "Err", "is_file_stable")
               /\ src' = src
          ELSE /\ src' = [src EXCEPT !.stable = IF stable THEN "yes" ELSE "no"]
               /\ run' = IF ~stable THEN Exit(run, "Skipped", "none")
                         ELSE [run EXCEPT !.pc = "probe"]
    /\ UNCHANGED <<disk, job, hist, sched_vars, replace_vars, gate_vars, store_vars,
                   engine_vars>>

\* Lines 373-387: run_ffprobe, has_video, is_already_av1, dry_run.
WorkflowProbe ==
    /\ run.pc = "probe"
    /\ \E probe_ok \in BOOLEAN, video_streams \in StreamLists :
          IF ~probe_ok
          THEN /\ run' = Exit([run EXCEPT !.probe = "failed"], "Err", "run_ffprobe")
               /\ src' = src
          ELSE LET metadata == [video_streams |-> video_streams]
                   r == [run EXCEPT !.probe = "done"]
               IN /\ src' = [src EXCEPT !.video_streams = video_streams]
                  /\ run' = IF ~has_video(metadata) THEN Exit(r, "Skipped", "none")
                            ELSE IF is_already_av1(metadata) THEN Exit(r, "Skipped", "none")
                            ELSE IF config.dry_run THEN Exit(r, "Skipped", "none")
                            ELSE [r EXCEPT !.pc = "create"]
    /\ UNCHANGED <<disk, job, hist, sched_vars, replace_vars, gate_vars, store_vars,
                   engine_vars>>

\* Lines 389-412: the job is created and saved Pending; the parameters and
\* the command are built; started_at is set (410) and the job is saved
\* Running.
WorkflowCreateJob ==
    /\ run.pc = "create"
    /\ \E save1_ok \in BOOLEAN, save2_ok \in BOOLEAN :
          LET pending == [run EXCEPT !.saved = SaveRecord(run, "Pending"),
                                     !.started_at = TRUE]
          IN IF ~save1_ok
             THEN /\ job' = job
                  /\ run' = Exit(run, "Err", "save_job_state")
             ELSE IF ~save2_ok
             THEN /\ job' = [status |-> "Pending", reason |-> "none"]
                  /\ run' = Exit(pending, "Err", "save_job_state")
             ELSE /\ job' = [status |-> "Running", reason |-> "none"]
                  /\ run' = [pending EXCEPT !.pc = "encode",
                                            !.saved = SaveRecord(pending, "Running")]
    /\ UNCHANGED <<disk, src, hist, sched_vars, replace_vars, gate_vars, store_vars,
                   engine_vars>>

\* A status that ignores the watchdog.
TranscodeResult_ExitStatusOnly(status_success, did_timeout) ==
    [success |-> status_success, timed_out |-> did_timeout]

\* executor.rs 177-185: success and timed_out of the returned TranscodeResult.
TranscodeResult(status_success, did_timeout) ==
    [success |-> status_success /\ ~did_timeout, timed_out |-> did_timeout]

\* main.rs 447-464: the branch process_file takes on a TranscodeResult.
CheckResult(result) ==
    IF result.timed_out THEN "timeout"
    ELSE IF ~result.success THEN "ffmpeg"
    ELSE "ok"

\* What execute_transcode gives (executor.rs 90-186): an Err when ffmpeg
\* cannot be started or its stderr cannot be read, else a TranscodeResult that
\* timed out, failed or succeeded.
ExecuteOutcomes == {"spawn_error", "read_error", "timeout", "ffmpeg", "ok"}

\* Lines 427-443: execute_transcode is called on a blocking thread and awaited.
\* ffmpeg, once started, may leave an output file; a successful one has.
WorkflowEncode ==
    /\ run.pc = "encode"
    /\ \E enc \in ExecuteOutcomes, status_success \in BOOLEAN,
          did_timeout \in BOOLEAN, output_written \in BOOLEAN :
          /\ \/ /\ enc \in {"spawn_error", "read_error"}
                /\ ~status_success
                /\ ~did_timeout
             \/ enc = CheckResult(TranscodeResult(status_success, did_timeout))
          /\ disk' = [disk EXCEPT !.candidate =
                         CASE enc = "spawn_error" -> @
                           [] enc = "ok"          -> TRUE
                           [] OTHER               -> @ \/ output_written]
          /\ LET r == [run EXCEPT !.spawned = TRUE, !.enc = enc] IN
             run' = IF enc \in {"spawn_error", "read_error"}
                    THEN Exit(r, "Err", "execute_transcode")
                    ELSE [r EXCEPT !.pc = "post",
                                   !.outcome = TranscodeResult(status_success,
                                                               did_timeout),
                                   !.finished_at = TRUE]
    /\ UNCHANGED <<job, src, hist, sched_vars, replace_vars, gate_vars, store_vars,
                   engine_vars>>

\* Lines 447-464: the encode timed out or failed: the job is saved Failed with
\* its reason, then cleanup_failed_transcode removes the output if it exists.
WorkflowEncodeFailed ==
    /\ run.pc = "post"
    /\ run.enc \in {"timeout", "ffmpeg"}
    /\ \E save_ok \in BOOLEAN, remove_ok \in BOOLEAN :
          IF ~save_ok
          THEN /\ run' = Exit(run, "Err", "save_job_state")
               /\ UNCHANGED <<job, disk>>
          ELSE /\ job' = [status |-> "Failed", reason |-> FailureReason(run.enc)]
               /\ IF disk.candidate /\ ~remove_ok
                  THEN /\ run' = Exit([run EXCEPT !.saved = SaveRecord(run, "Failed")],
                                      "Err", "cleanup_failed_transcode")
                       /\ disk' = disk
                  ELSE /\ run' = Exit([run EXCEPT !.saved = SaveRecord(run, "Failed")],
                                      "Err", "none")
                       /\ disk' = [disk EXCEPT !.candidate = FALSE]
    /\ UNCHANGED <<src, hist, sched_vars, replace_vars, gate_vars, store_vars,
                   engine_vars>>

\* Line 469: check_size_gate on the source and the output.
WorkflowSizeGate ==
    /\ run.pc = "post"
    /\ run.enc = "ok"
    /\ \E gate \in {"io_error", "Passed", "Failed"} :
          /\ (~disk.candidate => gate = "io_error")
          /\ run' = CASE gate = "io_error" -> Exit(run, "Err", "check_size_gate")
                      [] gate = "Passed"   -> [run EXCEPT !.gate = gate, !.pc = "replace"]
                      [] OTHER             -> [run EXCEPT !.gate = gate, !.pc = "reject"]
          /\ hist' = IF gate = "Failed" THEN [hist EXCEPT !.rejected_run = run.n]
                     ELSE hist
    /\ UNCHANGED <<disk, job, src, sched_vars, replace_vars, gate_vars, store_vars,
                   engine_vars>>

\* Lines 472-485: the gate passed: replace_file_atomic, then the job is saved
\* Success. A failed replacement leaves the source as it was, or leaves it
\* under the backup name only.
WorkflowReplace ==
    /\ run.pc = "replace"
    /\ \E replaced \in {"ok", "failed_restored", "failed_lost"}, save_ok \in BOOLEAN :
          IF replaced # "ok"
          THEN /\ run' = Exit(run, "Err", "replace_file_atomic")
               /\ disk' = IF replaced = "failed_lost"
                          THEN [disk EXCEPT !.source = "missing"] ELSE disk
               /\ job' = job
          ELSE /\ disk' = [disk EXCEPT !.source = "transcoded", !.candidate = FALSE]
               /\ IF save_ok
                  THEN /\ job' = [status |-> "Success", reason |-> "none"]
                       /\ run' = Exit([run EXCEPT !.saved = SaveRecord(run, "Success")],
                                      "Success", "none")
                  ELSE /\ job' = job
                       /\ run' = Exit(run, "Err", "save_job_state")
    /\ UNCHANGED <<src, hist, sched_vars, replace_vars, gate_vars, store_vars,
                   engine_vars>>

\* Lines 487-509: the gate failed: write_why_file, write_skip_marker,
\* cleanup_failed_transcode, then the job is saved Skipped; the first call
\* that fails ends the workflow.
WorkflowReject ==
    /\ run.pc = "reject"
    /\ \E why \in WriteOutcomes, marker \in WriteOutcomes,
          remove_ok \in BOOLEAN, save_ok \in BOOLEAN :
          LET d1 == [disk EXCEPT !.why = WriteFile(@, why)]
              d2 == [d1 EXCEPT !.marker = WriteFile(@, marker)]
              d3 == [d2 EXCEPT !.candidate = FALSE]
          IN IF why # "ok"
             THEN /\ disk' = d1
                  /\ run' = Exit(run, "Err", "write_why_file")
                  /\ UNCHANGED <<job, hist>>
             ELSE IF marker # "ok"
             THEN /\ disk' = d2
                  /\ run' = Exit(run, "Err", "write_skip_marker")
                  /\ UNCHANGED <<job, hist>>
             ELSE IF disk.candidate /\ ~remove_ok
             THEN /\ disk' = d2
                  /\ run' = Exit(run, "Err", "cleanup_failed_transcode")
                  /\ hist' = [hist EXCEPT !.marked_run = run.n]
                  /\ job' = job
             ELSE IF ~save_ok
             THEN /\ disk' = d3
                  /\ run' = Exit(run, "Err", "save_job_state")
                  /\ hist' = [hist EXCEPT !.marked_run = run.n]
                  /\ job' = job
             ELSE /\ disk' = d3
                  /\ run' = Exit([run EXCEPT !.saved = SaveRecord(run, "Skipped")],
                                 "Skipped", "none")
                  /\ hist' = [hist EXCEPT !.marked_run = run.n]
                  /\ job' = [status |-> "Skipped", reason |-> "Size gate failed"]
    /\ UNCHANGED <<src, sched_vars, replace_vars, gate_vars, store_vars,
                   engine_vars>>

NextWorkflow ==
    \/ WorkflowPreflight
    \/ WorkflowStability
    \/ WorkflowProbe
    \/ WorkflowCreateJob
    \/ WorkflowEncode
    \/ WorkflowEncodeFailed
    \/ WorkflowSizeGate
    \/ WorkflowReplace
    \/ WorkflowReject

SpecWorkflow == InitWorkflow /\ [][NextWorkflow]_vars

(***************************************************************************)
(* save_job_state and load_all_jobs (persistence.rs)                       *)
(***************************************************************************)
\* Calls of save_job_state in one run.
MaxSaves == 2

\* Job ids: TranscodeJob::new gives every job a fresh UUID.
Ids == {"j1", "j2"}

\* A TranscodeJob as it stands at each status: the fields the record keeps
\* beside the timestamps. An Option is <<>> for None and <<v>> for Some(v).
JobAt(id, status) ==
    [id |-> id,
     source_path |-> <<"media", id>>,
     output_path |-> IF status = "Pending" THEN <<>> ELSE <<"av1-tmp">>,
     status |-> status,
     original_bytes |-> <<2>>,
     new_bytes |-> IF status = "Success" THEN <<1>> ELSE <<>>]

\* The jobs passed to save_job_state: a job of either id, as created, as
\* started and as finished.
JobSamples ==
    {JobAt(id, status) : id \in Ids, status \in {"Pending", "Running", "Success"}}

Keys == <<"id", "source_path", "output_path", "status", "original_bytes", "new_bytes">>

\* serde_json::to_string_pretty: the document, as the sequence of its members.
to_string_pretty(j) ==
    << <<"id", j.id>>, <<"source_path", j.source_path>>,
       <<"output_path", j.output_path>>, <<"status", j.status>>,
       <<"original_bytes", j.original_bytes>>, <<"new_bytes", j.new_bytes>> >>

\* serde_json::from_str::<TranscodeJob> succeeds on a document that has every
\* member; a truncated or foreign text is an error.
Parses(text) ==
    /\ Len(text) = Len(Keys)
    /\ \A i \in 1..Len(Keys) : text[i][1] = Keys[i]

\* A deserializer that loses the sizes.
from_str_NoSizes(text) ==
    [id |-> text[1][2], source_path |-> text[2][2], output_path |-> text[3][2],
     status |-> text[4][2], original_bytes |-> <<>>, new_bytes |-> <<>>]

from_str(text) ==
    [id |-> text[1][2], source_path |-> text[2][2], output_path |-> text[3][2],
     status |-> text[4][2], original_bytes |-> text[5][2], new_bytes |-> text[6][2]]

\* dir.join(format!("{}.json", job.id)), as stem and extension.
file_name(id) == [stem |-> id, ext |-> "json"]

\* path.extension().
extension(name) == name.ext

\* Entries of the directory that no save_job_state call made: a directory
\* named like a record, a file with another extension that holds a record.
ForeignNames ==
    {[stem |-> "sub", ext |-> "json"], [stem |-> "j1", ext |-> "txt"]}

Names == {file_name(id) : id \in Ids} \cup ForeignNames

NoEntry == [kind |-> "none", text |-> <<>>]

ForeignEntry(name) ==
    IF name.stem = "sub" THEN [kind |-> "dir", text |-> <<>>]
    ELSE [kind |-> "file", text |-> to_string_pretty(JobAt("j1", "Success"))]

\* The orders in which fs::read_dir may list the entries.
Orders == {o \in [1..Cardinality(Names) -> Names] :
              \A i, j \in 1..Cardinality(Names) : i # j => o[i] # o[j]}

\* Lines 104-108, load_job_file: read_to_string, then from_str.
load_job_file(entry) ==
    IF entry.kind = "file" /\ Parses(entry.text)
    THEN [ok |-> TRUE, job |-> from_str(entry.text)]
    ELSE [ok |-> FALSE, job |-> JobAt("j1", "Pending")]

\* A loop that returns the error of a record that cannot be loaded.
PushLoaded_Abort(acc, r) ==
    IF acc.result = "Err" THEN acc
    ELSE IF r.ok THEN [acc EXCEPT !.jobs = Append(@, r.job)]
    ELSE [acc EXCEPT !.result = "Err"]

\* Lines 81-90: Ok(job) is pushed, Err(e) is printed and the loop goes on.
PushLoaded(acc, r) ==
    IF r.ok THEN [acc EXCEPT !.jobs = Append(@, r.job)] ELSE acc

\* Lines 71-91: the for loop over the entries read_dir lists.
RECURSIVE LoadEntries(_, _, _)
LoadEntries(d, order, acc) ==
    IF order = <<>> THEN acc
    ELSE LET name == Head(order)
             entry == d.entries[name]
         IN IF entry.kind = "none" THEN LoadEntries(d, Tail(order), acc)
            ELSE IF extension(name) # "json" THEN LoadEntries(d, Tail(order), acc)
            ELSE LoadEntries(d, Tail(order), PushLoaded(acc, load_job_file(entry)))

\* Lines 62-94.
load_all_jobs(d, order, read_dir_ok) ==
    IF ~d.exists THEN [result |-> "Ok", jobs |-> <<>>]
    ELSE IF ~read_dir_ok THEN [result |-> "Err", jobs |-> <<>>]
    ELSE LoadEntries(d, order, [result |-> "Ok", jobs |-> <<>>])

\* No call of save_job_state is under way.
NoSave == [id |-> "none"]

NotLoaded == [result |-> "none", jobs |-> <<>>]

\* The record the file of job id holds, if it holds a whole one.
RecordAt(d, id) ==
    IF load_job_file(d.entries[file_name(id)]).ok
    THEN <<load_job_file(d.entries[file_name(id)]).job>>
    ELSE <<>>

\* The jobs directory is missing, or empty, or holds the foreign entries;
\* nothing has been saved.
InitStore ==
    /\ jobs_dir \in
          {[exists |-> FALSE, entries |-> [n \in Names |-> NoEntry]],
           [exists |-> TRUE, entries |-> [n \in Names |-> NoEntry]],
           [exists |-> TRUE,
            entries |-> [n \in Names |-> IF n \in ForeignNames THEN ForeignEntry(n)
                                         ELSE NoEntry]]}
    /\ store = [pc |-> "idle", job |-> NoSave,
                saves |-> 0, all_ok |-> TRUE, crashed |-> FALSE,
                last |-> [id \in Ids |-> <<>>], read_dir_ok |-> TRUE,
                prior |-> <<>>, seen |-> NotLoaded]
    /\ loaded = NotLoaded
    /\ config = [once_mode |-> TRUE, max_concurrent |-> 1, dry_run |-> FALSE]
    /\ main_pc = "exited"
    /\ files = <<>>
    /\ next_file = 1
    /\ set = {}
    /\ results = [success |-> 0, skipped |-> 0, failed |-> 0]
    /\ shutdown = FALSE
    /\ processing = {}
    /\ wf = [s \in Slots |-> IdleTask]
    /\ last_event = <<"none", "none">>
    /\ IdleReplace
    /\ IdleGate
    /\ IdleWorkflow
    /\ IdleEngine

\* Lines 28-35: save_job_state(job, dir) is called; the directory is created
\* if it does not exist, the job is serialized.
SaveJobStateBegin ==
    /\ store.pc = "idle"
    /\ ~store.crashed
    /\ store.saves < MaxSaves
    /\ loaded' = NotLoaded
    /\ \E j \in JobSamples, create_ok \in BOOLEAN :
          IF ~jobs_dir.exists /\ ~create_ok
          THEN /\ store' = [store EXCEPT !.all_ok = FALSE, !.saves = @ + 1]
               /\ jobs_dir' = jobs_dir
          ELSE /\ store' = [store EXCEPT
                                  !.job = j, !.pc = "open", !.saves = @ + 1,
                                  !.prior = RecordAt(jobs_dir, j.id)]
               /\ jobs_dir' = [jobs_dir EXCEPT !.exists = TRUE]
    /\ UNCHANGED <<sched_vars, replace_vars, gate_vars, workflow_vars,
                   engine_vars>>

\* Line 39, fs::write, first half: the file is created, or truncated if it
\* exists.
SaveJobStateOpen ==
    /\ store.pc = "open"
    /\ ~store.crashed
    /\ \E ok \in BOOLEAN :
          IF ok
          THEN /\ jobs_dir' = [jobs_dir EXCEPT
                                  !.entries[file_name(store.job.id)] =
                                      [kind |-> "file", text |-> <<>>]]
               /\ store' = [store EXCEPT !.pc = "write"]
          ELSE /\ jobs_dir' = jobs_dir
               /\ store' = [store EXCEPT !.pc = "idle", !.job = NoSave,
                                         !.all_ok = FALSE,
                                         !.prior = <<>>, !.seen = NotLoaded]
    /\ UNCHANGED <<loaded, sched_vars, replace_vars, gate_vars, workflow_vars,
                   engine_vars>>

\* Line 39, fs::write, second half: the document is written; a write error
\* leaves what was written before it.
SaveJobStateWrite ==
    /\ store.pc = "write"
    /\ ~store.crashed
    /\ \E written \in 0..Len(Keys) :
          LET text == to_string_pretty(store.job) IN
          /\ jobs_dir' = [jobs_dir EXCEPT
                             !.entries[file_name(store.job.id)].text =
                                 SubSeq(text, 1, written)]
          /\ store' = IF written = Len(text)
                      THEN [store EXCEPT !.pc = "idle", !.job = NoSave,
                                         !.last[store.job.id] = <<store.job>>,
                                         !.prior = <<>>, !.seen = NotLoaded]
                      ELSE [store EXCEPT !.pc = "idle", !.job = NoSave,
                                         !.all_ok = FALSE,
                                         !.prior = <<>>, !.seen = NotLoaded]
    /\ UNCHANGED <<loaded, sched_vars, replace_vars, gate_vars, workflow_vars,
                   engine_vars>>

\* The process dies inside save_job_state: before the file is opened, after
\* it was truncated, or with a part of the document written.
SaveJobStateCrash ==
    /\ store.pc \in {"open", "write"}
    /\ ~store.crashed
    /\ \E written \in 0..(Len(Keys) - 1) :
          /\ store.pc = "open" => written = 0
          /\ jobs_dir' = IF store.pc = "open" THEN jobs_dir
                         ELSE [jobs_dir EXCEPT
                                  !.entries[file_name(store.job.id)].text =
                                      SubSeq(to_string_pretty(store.job), 1, written)]
    /\ store' = [store EXCEPT !.crashed = TRUE, !.all_ok = FALSE,
                              !.prior = <<>>, !.seen = NotLoaded]
    /\ UNCHANGED <<loaded, sched_vars, replace_vars, gate_vars, workflow_vars,
                   engine_vars>>

\* load_all_jobs(dir) is called, by this process or by the next one.
LoadAllJobs ==
    /\ store.pc = "idle" \/ store.crashed
    /\ loaded = NotLoaded
    /\ \E read_dir_ok \in BOOLEAN :
          /\ loaded' \in {load_all_jobs(jobs_dir, order, read_dir_ok) : order \in Orders}
          /\ store' = [store EXCEPT !.read_dir_ok = read_dir_ok]
    /\ UNCHANGED <<jobs_dir, sched_vars, replace_vars, gate_vars, workflow_vars,
                   engine_vars>>

\* av1top main.rs 125 and 174: the dashboard, another process, calls
\* load_all_jobs(dir) while the daemon is inside save_job_state.
DashboardLoadAllJobs ==
    /\ store.pc \in {"open", "write"}
    /\ ~store.crashed
    /\ store.seen = NotLoaded
    /\ \E read_dir_ok \in BOOLEAN :
          store' \in {[store EXCEPT !.seen = load_all_jobs(jobs_dir, order, read_dir_ok)] :
                         order \in Orders}
    /\ UNCHANGED <<jobs_dir, loaded, sched_vars, replace_vars, gate_vars,
                   workflow_vars, engine_vars>>

NextStore ==
    \/ SaveJobStateBegin
    \/ SaveJobStateOpen
    \/ SaveJobStateWrite
    \/ SaveJobStateCrash
    \/ LoadAllJobs
    \/ DashboardLoadAllJobs

SpecStore == InitStore /\ [][NextStore]_vars

(***************************************************************************)
(* execute_transcode and parse_ffmpeg_progress (executor.rs, utils.rs)     *)
(***************************************************************************)
\* Number of stderr lines the encoder writes in one run.
MaxLines == 3

\* Largest max_stderr_lines explored (ExecuteOptions; the default is 1000).
MaxRetained == 2

KIB == 1024

\* Text is a sequence of characters.
Digits == {"0", "7"}

DigitValue(c) == IF c = "7" THEN 7 ELSE 0

RECURSIVE Decimal(_)
Decimal(text) ==
    IF text = <<>> THEN 0
    ELSE 10 * Decimal(SubSeq(text, 1, Len(text) - 1)) + DigitValue(text[Len(text)])

IsDigits(text) == Len(text) > 0 /\ \A i \in 1..Len(text) : text[i] \in Digits

\* str::parse::<u64>() on decimal digits; anything else is an error.
parse_u64(text) ==
    IF IsDigits(text) THEN [ok |-> TRUE, value |-> Decimal(text)]
    ELSE [ok |-> FALSE, value |-> 0]

\* An f64: not-a-number, or a number (whole numbers are all the model writes).
F64(n) == [nan |-> FALSE, num |-> n]

NaN == [nan |-> TRUE, num |-> 0]

FAdd(x, y) == IF x.nan \/ y.nan THEN NaN ELSE F64(x.num + y.num)

FMul(x, y) == IF x.nan \/ y.nan THEN NaN ELSE F64(x.num * y.num)

\* str::parse::<f64>(): digits, digits with a minus sign, and "nan".
parse_f64(text) ==
    IF IsDigits(text) THEN [ok |-> TRUE, value |-> F64(Decimal(text))]
    ELSE IF Len(text) > 1 /\ text[1] = "-" /\ IsDigits(Tail(text))
    THEN [ok |-> TRUE, value |-> F64(0 - Decimal(Tail(text)))]
    ELSE IF text = <<"n", "a", "n">> THEN [ok |-> TRUE, value |-> NaN]
    ELSE [ok |-> FALSE, value |-> F64(0)]

\* Result::unwrap_or.
unwrap_or(r, default) == IF r.ok THEN r.value ELSE default

\* str::strip_suffix.
strip_suffix(text, suffix) ==
    IF /\ Len(text) >= Len(suffix)
       /\ SubSeq(text, Len(text) - Len(suffix) + 1, Len(text)) = suffix
    THEN [ok |-> TRUE, value |-> SubSeq(text, 1, Len(text) - Len(suffix))]
    ELSE [ok |-> FALSE, value |-> <<>>]

\* str::split(':').
RECURSIVE split_colon(_, _)
split_colon(text, piece) ==
    IF text = <<>> THEN <<piece>>
    ELSE IF Head(text) = ":" THEN <<piece>> \o split_colon(Tail(text), <<>>)
    ELSE split_colon(Tail(text), Append(piece, Head(text)))

\* utils.rs 44-54.
parse_size_with_unit(size_str) ==
    IF strip_suffix(size_str, <<"k", "B">>).ok
    THEN unwrap_or(parse_u64(strip_suffix(size_str, <<"k", "B">>).value), 0) * KIB
    ELSE IF strip_suffix(size_str, <<"M", "B">>).ok
    THEN unwrap_or(parse_u64(strip_suffix(size_str, <<"M", "B">>).value), 0) * KIB * KIB
    ELSE IF strip_suffix(size_str, <<"G", "B">>).ok
    THEN unwrap_or(parse_u64(strip_suffix(size_str, <<"G", "B">>).value), 0)
             * KIB * KIB * KIB
    ELSE unwrap_or(parse_u64(size_str), 0)

\* utils.rs 63-73.
parse_time_to_seconds(time_str) ==
    LET parts == split_colon(time_str, <<>>) IN
    IF Len(parts) = 3
    THEN LET hours == unwrap_or(parse_f64(parts[1]), F64(0))
             minutes == unwrap_or(parse_f64(parts[2]), F64(0))
             seconds == unwrap_or(parse_f64(parts[3]), F64(0))
         IN FAdd(FAdd(FMul(hours, F64(3600)), FMul(minutes, F64(60))), seconds)
    ELSE F64(0)

\* A line is the sequence of its whitespace-separated parts; a part is
\* key=value, or a word without '='.
Pair(key, value) == [key |-> key, eq |-> TRUE, value |-> value]

Word(w) == [key |-> w, eq |-> FALSE, value |-> <<>>]

\* Line 162: line.starts_with("frame="), for a line without leading blanks.
starts_with_frame(line) ==
    Len(line) > 0 /\ line[1].eq /\ line[1].key = "frame"

\* Lines 204-226: one key=value part is matched against the five keys.
ParsePart(acc, part) ==
    IF ~part.eq THEN acc
    ELSE CASE part.key = "frame" ->
                 [acc EXCEPT !.frame = unwrap_or(parse_u64(part.value), 0)]
           [] part.key = "fps" ->
                 [acc EXCEPT !.fps = unwrap_or(parse_f64(part.value), F64(0))]
           [] part.key = "size" ->
                 [acc EXCEPT !.size_bytes = parse_size_with_unit(part.value)]
           [] part.key = "time" ->
                 [acc EXCEPT !.time_secs = parse_time_to_seconds(part.value)]
           [] part.key = "speed" ->
                 IF strip_suffix(part.value, <<"x">>).ok
                 THEN [acc EXCEPT !.speed =
                          unwrap_or(parse_f64(strip_suffix(part.value, <<"x">>).value),
                                    F64(0))]
                 ELSE acc
           [] OTHER -> acc

RECURSIVE ParseParts(_, _)
ParseParts(acc, parts) ==
    IF parts = <<>> THEN acc ELSE ParseParts(ParsePart(acc, Head(parts)), Tail(parts))

\* Lines 194-242. Duration::from_secs_f64 panics on a negative or
\* not-a-number argument.
parse_ffmpeg_progress(line) ==
    LET p == ParseParts([frame |-> 0, fps |-> F64(0), size_bytes |-> 0,
                         time_secs |-> F64(0), speed |-> F64(0)], line)
    IN IF p.frame > 0
       THEN IF p.time_secs.nan \/ p.time_secs.num < 0
            THEN [kind |-> "panic", frame |-> p.frame]
            ELSE [kind |-> "Some", frame |-> p.frame]
       ELSE [kind |-> "None", frame |-> 0]

\* Line 158.
TruncationMarker == <<Word("... (output truncated) ...")>>

\* Every line is kept.
Retain_All(stderr_lines, line, max_stderr_lines) == Append(stderr_lines, line)

\* Lines 155-159.
Retain(stderr_lines, line, max_stderr_lines) ==
    IF Len(stderr_lines) < max_stderr_lines THEN Append(stderr_lines, line)
    ELSE IF Len(stderr_lines) = max_stderr_lines
    THEN Append(stderr_lines, TruncationMarker)
    ELSE stderr_lines

\* Lines the encoder may write: full progress lines, the padded form ffmpeg
\* prints for small frame numbers, a zero frame, broken telemetry values, a
\* line without frame, and log text.
SampleLines ==
    { <<Pair("frame", <<"7", "7">>), Pair("fps", <<"7">>), Pair("size", <<"7", "k", "B">>),
        Pair("time", <<"0", ":", "0", ":", "7">>), Pair("speed", <<"7", "x">>)>>,
      <<Pair("frame", <<>>), Word("7"), Pair("fps", <<"7">>)>>,
      <<Pair("frame", <<"0">>), Pair("fps", <<"7">>)>>,
      <<Pair("frame", <<"a">>)>>,
      <<Pair("fps", <<"7">>), Pair("speed", <<"7", "x">>)>>,
      <<Pair("frame", <<"7">>), Pair("size", <<"N", "/", "A">>)>>,
      <<Pair("frame", <<"7">>), Pair("time", <<"n", "a", "n", ":", "0", ":", "0">>)>>,
      <<Word("Stream"), Word("mapping")>> }

InitSupervise ==
    /\ \E n \in 0..MaxRetained, timeout \in BOOLEAN :
          sup = [pc |-> "reading", max_stderr_lines |-> n, timeout |-> timeout,
                 input |-> <<>>, stderr_lines |-> <<>>,
                 delivered |-> 0, frame |-> 0, result |-> "none",
                 outcome |-> TranscodeResult(FALSE, FALSE)]
    /\ heur = [pc |-> "unused"]
    /\ cmd = [pc |-> "unused"]
    /\ lib = [pc |-> "unused"]
    /\ wd = [pc |-> "unused"]
    /\ config = [once_mode |-> TRUE, max_concurrent |-> 1, dry_run |-> FALSE]
    /\ main_pc = "exited"
    /\ files = <<>>
    /\ next_file = 1
    /\ set = {}
    /\ results = [success |-> 0, skipped |-> 0, failed |-> 0]
    /\ shutdown = FALSE
    /\ processing = {}
    /\ wf = [s \in Slots |-> IdleTask]
    /\ last_event = <<"none", "none">>
    /\ IdleReplace
    /\ IdleGate
    /\ IdleWorkflow
    /\ IdleStore

\* Lines 151-169: one turn of the loop: the line is kept or dropped, and a
\* line that starts with "frame=" is parsed and its progress handed to the
\* callback. delivered counts the callback's calls for this line.
SuperviseReadLine ==
    /\ sup.pc = "reading"
    /\ Len(sup.input) < MaxLines
    /\ \E line \in SampleLines :
          LET kept == Retain(sup.stderr_lines, line, sup.max_stderr_lines)
              progress == IF starts_with_frame(line) THEN parse_ffmpeg_progress(line)
                          ELSE [kind |-> "None", frame |-> 0]
          IN sup' = [sup EXCEPT !.input = Append(@, line),
                                !.stderr_lines = kept,
                                !.delivered = IF progress.kind = "Some" THEN 1 ELSE 0,
                                !.frame = IF progress.kind = "Some" THEN progress.frame
                                          ELSE 0,
                                !.pc = IF progress.kind = "panic" THEN "panicked"
                                       ELSE "reading"]
    /\ UNCHANGED <<heur, cmd, lib, wd, sched_vars, replace_vars, gate_vars, workflow_vars,
                   store_vars>>

\* Line 152: reading the next line fails; the error is returned.
SuperviseReadError ==
    /\ sup.pc = "reading"
    /\ sup' = [sup EXCEPT !.pc = "returned", !.result = "Err"]
    /\ UNCHANGED <<heur, cmd, lib, wd, sched_vars, replace_vars, gate_vars, workflow_vars,
                   store_vars>>

\* Lines 171-185: stderr is at its end; wait for the child and return. The
\* watchdog (129-148) sets the flag only when a timeout is configured.
SuperviseReturn ==
    /\ sup.pc = "reading"
    /\ \E wait_ok \in BOOLEAN, status_success \in BOOLEAN, did_timeout \in BOOLEAN :
          /\ did_timeout => sup.timeout
          /\ sup' = IF wait_ok
                    THEN [sup EXCEPT !.pc = "returned", !.result = "Ok",
                                     !.outcome = TranscodeResult(status_success,
                                                                 did_timeout)]
                    ELSE [sup EXCEPT !.pc = "returned", !.result = "Err"]
    /\ UNCHANGED <<heur, cmd, lib, wd, sched_vars, replace_vars, gate_vars, workflow_vars,
                   store_vars>>

NextSupervise ==
    \/ SuperviseReadLine
    \/ SuperviseReadError
    \/ SuperviseReturn

SpecSupervise == InitSupervise /\ [][NextSupervise]_vars

(***************************************************************************)
(* choose_quality, choose_surface, is_webrip_like (heuristics.rs)          *)
(***************************************************************************)
\* Largest bit depth explored.
MaxBitDepth == 16

HEIGHT_1080P == 1080

HEIGHT_1440P == 1440

QSV_QUALITY_BELOW_1080P == 25

QSV_QUALITY_AT_1080P == 24

QSV_QUALITY_AT_1440P_PLUS == 23

USE_10BIT_THRESHOLD == 10

\* Heights explored: around both thresholds, zero, and a very large one (the
\* argument is a u32 and is only compared).
Heights == {0, 480, 720, 1079, 1080, 1081, 1200, 1439, 1440, 1441, 2160, 2147483647}

\* A choice that keeps the middle tier up to 1440.
choose_quality_Gap(height) ==
    IF height < HEIGHT_1080P THEN QSV_QUALITY_BELOW_1080P
    ELSE IF height < HEIGHT_1440P THEN QSV_QUALITY_AT_1080P
    ELSE QSV_QUALITY_AT_1440P_PLUS

\* heuristics.rs 83-94.
choose_quality(height) ==
    IF height < HEIGHT_1080P THEN QSV_QUALITY_BELOW_1080P
    ELSE IF height = HEIGHT_1080P THEN QSV_QUALITY_AT_1080P
    ELSE QSV_QUALITY_AT_1440P_PLUS

\* A choice with the threshold on the wrong side.
choose_surface_Above(bit_depth) ==
    IF bit_depth > USE_10BIT_THRESHOLD THEN "p010" ELSE "nv12"

\* heuristics.rs 107-113.
choose_surface(bit_depth) ==
    IF bit_depth >= USE_10BIT_THRESHOLD THEN "p010" ELSE "nv12"

\* char::to_lowercase on the letters the model writes.
LowerChar(c) ==
    CASE c = "M" -> "m" [] c = "P" -> "p" [] c = "O" -> "o" [] c = "V" -> "v"
      [] c = "W" -> "w" [] c = "E" -> "e" [] c = "B" -> "b" [] OTHER -> c

\* String::to_lowercase.
LowerText(text) == [i \in 1..Len(text) |-> LowerChar(text[i])]

\* str::contains.
Contains(text, pattern) ==
    \E i \in 0..(Len(text) - Len(pattern)) :
        SubSeq(text, i + 1, i + Len(pattern)) = pattern

\* metadata.rs 36-38.
is_vfr(stream) == stream.avg_frame_rate # stream.r_frame_rate

\* A check of the width alone.
has_odd_dimensions_WidthOnly(stream) == stream.width % 2 # 0

\* metadata.rs 42-44.
has_odd_dimensions(stream) == stream.width % 2 # 0 \/ stream.height % 2 # 0

\* heuristics.rs 28-32: the loop over the video streams.
RECURSIVE AnyWebripStream(_)
AnyWebripStream(video_streams) ==
    IF video_streams = <<>> THEN FALSE
    ELSE IF is_vfr(Head(video_streams)) \/ has_odd_dimensions(Head(video_streams))
    THEN TRUE
    ELSE AnyWebripStream(Tail(video_streams))

\* heuristics.rs 17-35.
is_webrip_like(meta) ==
    LET format_lower == LowerText(meta.format_name) IN
    IF \/ Contains(format_lower, <<"m", "p", "4">>)
       \/ Contains(format_lower, <<"m", "o", "v">>)
       \/ Contains(format_lower, <<"w", "e", "b", "m">>)
    THEN TRUE
    ELSE AnyWebripStream(meta.video_streams)

\* Container format names as ffprobe reports them, and variations of them.
FormatNames ==
    { <<"a", "v", "i">>,
      <<"m", "p", "e", "g", "t", "s">>,
      <<"m", "a", "t", "r", "o", "s", "k", "a", ",", "w", "e", "b", "m">>,
      <<"m", "o", "v", ",", "m", "p", "4">>,
      <<"M", "P", "4">>,
      <<"W", "e", "b", "M">>,
      <<"q", "m", "o", "v">>,
      <<"m", "p", ",", "4">> }

\* A VideoStreamInfo (metadata.rs 8-31).
Stream(codec, width, height, bit_depth, is_default, avg_frame_rate) ==
    [codec |-> codec, width |-> width, height |-> height, bit_depth |-> bit_depth,
     is_default |-> is_default, avg_frame_rate |-> avg_frame_rate,
     r_frame_rate |-> "24/1"]

\* Streams with even and odd sizes, constant and variable frame rate.
HeuristicStreams ==
    {Stream("h264", w, h, 8, FALSE, avg) :
        w \in {1920, 1921}, h \in {1080, 1081}, avg \in {"24/1", "24000/1001"}}

RECURSIVE SeqsUpTo(_, _)
SeqsUpTo(S, n) ==
    IF n = 0 THEN {<<>>}
    ELSE SeqsUpTo(S, n - 1) \cup
         {Append(q, x) : q \in {r \in SeqsUpTo(S, n - 1) : Len(r) = n - 1}, x \in S}

HeuristicMetas ==
    {[format_name |-> f, video_streams |-> v] :
        f \in FormatNames, v \in SeqsUpTo(HeuristicStreams, MaxStreams)}

NoMeta == [format_name |-> <<>>, video_streams |-> <<>>]

\* One call of one of the three functions, with its argument.
InitHeuristics ==
    /\ \E call \in {"choose_quality", "choose_surface", "is_webrip_like"},
          height \in Heights, bit_depth \in 0..MaxBitDepth,
          meta \in HeuristicMetas \cup {NoMeta} :
          /\ call # "choose_quality" => height = 0
          /\ call # "choose_surface" => bit_depth = 0
          /\ call # "is_webrip_like" => meta = NoMeta
          /\ heur = [pc |-> "called", call |-> call, height |-> height,
                     bit_depth |-> bit_depth, meta |-> meta,
                     quality |-> 0, surface |-> "none", webrip |-> FALSE]
    /\ sup = [pc |-> "unused"]
    /\ cmd = [pc |-> "unused"]
    /\ lib = [pc |-> "unused"]
    /\ wd = [pc |-> "unused"]
    /\ config = [once_mode |-> TRUE, max_concurrent |-> 1, dry_run |-> FALSE]
    /\ main_pc = "exited"
    /\ files = <<>>
    /\ next_file = 1
    /\ set = {}
    /\ results = [success |-> 0, skipped |-> 0, failed |-> 0]
    /\ shutdown = FALSE
    /\ processing = {}
    /\ wf = [s \in Slots |-> IdleTask]
    /\ last_event = <<"none", "none">>
    /\ IdleReplace
    /\ IdleGate
    /\ IdleWorkflow
    /\ IdleStore

ChooseQuality ==
    /\ heur.pc = "called"
    /\ heur.call = "choose_quality"
    /\ heur' = [heur EXCEPT !.pc = "returned", !.quality = choose_quality(heur.height)]
    /\ UNCHANGED <<sup, cmd, lib, wd, sched_vars, replace_vars, gate_vars, workflow_vars,
                   store_vars>>

ChooseSurface ==
    /\ heur.pc = "called"
    /\ heur.call = "choose_surface"
    /\ heur' = [heur EXCEPT !.pc = "returned", !.surface = choose_surface(heur.bit_depth)]
    /\ UNCHANGED <<sup, cmd, lib, wd, sched_vars, replace_vars, gate_vars, workflow_vars,
                   store_vars>>

IsWebripLike ==
    /\ heur.pc = "called"
    /\ heur.call = "is_webrip_like"
    /\ heur' = [heur EXCEPT !.pc = "returned", !.webrip = is_webrip_like(heur.meta)]
    /\ UNCHANGED <<sup, cmd, lib, wd, sched_vars, replace_vars, gate_vars, workflow_vars,
                   store_vars>>

NextHeuristics ==
    \/ ChooseQuality
    \/ ChooseSurface
    \/ IsWebripLike

SpecHeuristics == InitHeuristics /\ [][NextHeuristics]_vars

(***************************************************************************)
(* TranscodeParams::from_metadata, build_ffmpeg_command (core transcode.rs)*)
(* and build_transcode_command (av1d ffmpeg.rs)                            *)
(***************************************************************************)
\* An argument is the sequence of the pieces format! joins; Fixed makes
\* arguments of literal strings.
Fixed(strings) == [i \in 1..Len(strings) |-> <<strings[i]>>]

\* What std::fs::read_dir("/dev/dri") shows: the directory cannot be read,
\* it holds no renderD* entry, or the first such entry it lists.
ProbeResults == {"unreadable", "no_render", "renderD128", "renderD129"}

has_render(probe) == probe \in {"renderD128", "renderD129"}

\* metadata.rs 95-100.
RECURSIVE FirstDefault(_, _)
FirstDefault(video_streams, i) ==
    IF i > Len(video_streams) THEN 0
    ELSE IF video_streams[i].is_default THEN i
    ELSE FirstDefault(video_streams, i + 1)

default_video_stream(metadata) ==
    IF FirstDefault(metadata.video_streams, 1) # 0
    THEN metadata.video_streams[FirstDefault(metadata.video_streams, 1)]
    ELSE metadata.video_streams[1]

\* metadata.rs 104-115; the index is 0-based.
default_video_stream_index(metadata) ==
    IF FirstDefault(metadata.video_streams, 1) # 0
    THEN FirstDefault(metadata.video_streams, 1) - 1
    ELSE 0

\* transcode.rs 43-71, for metadata with a video stream.
from_metadata(input_path, metadata, is_webrip) ==
    [input_path |-> <<input_path.dir, input_path.stem, input_path.ext>>,
     output_path |-> <<input_path.dir, input_path.stem, ".av1-tmp.mkv">>,
     video_stream_index |-> default_video_stream_index(metadata),
     quality |-> choose_quality(default_video_stream(metadata).height),
     surface |-> choose_surface(default_video_stream(metadata).bit_depth),
     is_webrip |-> is_webrip]

\* transcode.rs 137-142 and ffmpeg.rs 87-91.
WebripInputFlags(is_webrip) ==
    IF is_webrip THEN Fixed(<<"-fflags", "+genpts", "-copyts", "-start_at_zero">>)
    ELSE <<>>

\* Sync flags on every file.
WebripSyncFlags_Always(is_webrip) ==
    Fixed(<<"-vsync", "0", "-avoid_negative_ts", "make_zero">>)

\* transcode.rs 190-195 and ffmpeg.rs 129-132.
WebripSyncFlags(is_webrip) ==
    IF is_webrip THEN Fixed(<<"-vsync", "0", "-avoid_negative_ts", "make_zero">>)
    ELSE <<>>

\* transcode.rs 150-187 and ffmpeg.rs 100-126.
StreamMapping(video_stream_index) ==
    Fixed(<<"-map", "0", "-map", "-0:v", "-map", "-0:t", "-map">>)
    \o << <<"0:v:", ToString(video_stream_index)>> >>
    \o Fixed(<<"-map", "0:a?", "-map", "-0:a:m:language:rus",
               "-map", "-0:a:m:language:ru", "-map", "0:s?",
               "-map", "-0:s:m:language:rus", "-map", "-0:s:m:language:ru",
               "-map_chapters", "0">>)

\* transcode.rs 220-240 and ffmpeg.rs 183-197.
OutputArgs(output_path) ==
    Fixed(<<"-c:a", "copy", "-c:s", "copy", "-max_muxing_queue_size", "2048",
            "-map_metadata", "0", "-f", "matroska", "-movflags", "+faststart">>)
    \o <<output_path>>

\* transcode.rs 89-243; probe is what read_dir("/dev/dri") shows (108-123).
build_ffmpeg_command(params, probe) ==
    Fixed(<<"-y", "-v", "verbose", "-stats", "-benchmark", "-benchmark_all",
            "-hwaccel", "none", "-init_hw_device">>)
    \o Fixed(<<IF has_render(probe) THEN "qsv=hw,child_device_type=vaapi" ELSE "qsv=hw">>)
    \o Fixed(<<"-filter_hw_device", "hw", "-analyzeduration", "50M", "-probesize", "50M">>)
    \o WebripInputFlags(params.is_webrip)
    \o Fixed(<<"-i">>) \o <<params.input_path>>
    \o StreamMapping(params.video_stream_index)
    \o WebripSyncFlags(params.is_webrip)
    \o Fixed(<<"-vf:v:0">>)
    \o << <<"pad=ceil(iw/2)*2:ceil(ih/2)*2,setsar=1,format=", params.surface,
            ",hwupload=extra_hw_frames=64">> >>
    \o Fixed(<<"-c:v:0", "av1_qsv", "-global_quality:v:0">>)
    \o << <<ToString(params.quality)>> >>
    \o Fixed(<<"-preset:v:0", "medium", "-look_ahead", "1">>)
    \o OutputArgs(params.output_path)

\* ffmpeg.rs 166-171.
compression_level(quality) ==
    CASE quality = 23 -> "4" [] quality = 24 -> "5" [] quality = 25 -> "6" [] OTHER -> "5"

\* ffmpeg.rs 21-200; probe is what read_dir("/dev/dri") shows (56-80).
build_transcode_command(input, output, metadata, probe) ==
    LET quality == choose_quality(default_video_stream(metadata).height)
        surface == choose_surface(default_video_stream(metadata).bit_depth)
        is_webrip == is_webrip_like(metadata)
        use_vaapi == has_render(probe)
    IN Fixed(<<"-y", "-v", "verbose", "-stats", "-benchmark", "-benchmark_all",
               "-hwaccel", "none", "-init_hw_device">>)
       \o (IF use_vaapi
           THEN << <<"vaapi=va:", "/dev/dri/", probe>> >> \o Fixed(<<"-filter_hw_device", "va">>)
           ELSE Fixed(<<"qsv=hw", "-filter_hw_device", "hw">>))
       \o Fixed(<<"-analyzeduration", "50M", "-probesize", "50M">>)
       \o WebripInputFlags(is_webrip)
       \o Fixed(<<"-i">>) \o <<input>>
       \o StreamMapping(default_video_stream_index(metadata))
       \o WebripSyncFlags(is_webrip)
       \o Fixed(<<"-vf:v:0">>)
       \o (IF use_vaapi
           THEN Fixed(<<"pad=ceil(iw/2)*2:ceil(ih/2)*2,setsar=1,format=nv12,hwupload">>)
           ELSE << <<"pad=ceil(iw/2)*2:ceil(ih/2)*2,setsar=1,format=", surface,
                     ",hwupload=extra_hw_frames=64">> >>)
       \o (IF use_vaapi
           THEN Fixed(<<"-c:v:0", "av1_vaapi", "-compression_level:v:0",
                        compression_level(quality)>>)
           ELSE Fixed(<<"-c:v:0", "av1_qsv", "-global_quality:v:0">>)
                \o << <<ToString(quality)>> >>
                \o Fixed(<<"-preset:v:0", "medium", "-look_ahead", "1">>))
       \o OutputArgs(output)

\* The video streams of the files whose commands are built.
CommandStreams ==
    {Stream("h264", 1920, h, d, def, "24/1") :
        h \in {720, 1080, 1440}, d \in {8, 10}, def \in BOOLEAN}

\* One stream, or two with a second stream of another size.
CommandMetas ==
    {[format_name |-> f, video_streams |-> v] :
        f \in {<<"a", "v", "i">>, <<"m", "o", "v", ",", "m", "p", "4">>},
        v \in {<<s>> : s \in CommandStreams}
              \cup {<<s, Stream("h264", 1920, 1080, 8, def, "24/1")>> :
                       s \in CommandStreams, def \in BOOLEAN}}

InputPath == [dir |-> "/media/", stem |-> "movie", ext |-> ".mkv"]

\* Two builds for the same file: each with its is_webrip flag and with what
\* the host's /dev/dri showed at that moment.
InitCommand ==
    /\ \E builder \in {"build_ffmpeg_command", "build_transcode_command"},
          metadata \in CommandMetas,
          w \in BOOLEAN \X BOOLEAN, probe \in ProbeResults \X ProbeResults :
          cmd = [pc |-> "first", builder |-> builder, metadata |-> metadata,
                 is_webrip |-> IF builder = "build_ffmpeg_command" THEN w
                               ELSE <<is_webrip_like(metadata), is_webrip_like(metadata)>>,
                 probe |-> probe, args |-> <<<<>>, <<>>>>]
          /\ (builder = "build_transcode_command" => w = <<FALSE, FALSE>>)
    /\ sup = [pc |-> "unused"]
    /\ heur = [pc |-> "unused"]
    /\ lib = [pc |-> "unused"]
    /\ wd = [pc |-> "unused"]
    /\ config = [once_mode |-> TRUE, max_concurrent |-> 1, dry_run |-> FALSE]
    /\ main_pc = "exited"
    /\ files = <<>>
    /\ next_file = 1
    /\ set = {}
    /\ results = [success |-> 0, skipped |-> 0, failed |-> 0]
    /\ shutdown = FALSE
    /\ processing = {}
    /\ wf = [s \in Slots |-> IdleTask]
    /\ last_event = <<"none", "none">>
    /\ IdleReplace
    /\ IdleGate
    /\ IdleWorkflow
    /\ IdleStore

\* The build that is due: the first, then the second.
Due == IF cmd.pc = "first" THEN 1 ELSE 2

\* main.rs 397-407: from_metadata, then build_ffmpeg_command.
BuildFfmpegCommand ==
    /\ cmd.pc \in {"first", "second"}
    /\ cmd.builder = "build_ffmpeg_command"
    /\ cmd' = [cmd EXCEPT
                  !.args[Due] =
                      build_ffmpeg_command(
                          from_metadata(InputPath, cmd.metadata, cmd.is_webrip[Due]),
                          cmd.probe[Due]),
                  !.pc = IF cmd.pc = "first" THEN "second" ELSE "built"]
    /\ UNCHANGED <<sup, heur, lib, wd, sched_vars, replace_vars, gate_vars, workflow_vars,
                   store_vars>>

\* ffmpeg.rs 21-200, on the input path and the output path made from it.
BuildTranscodeCommand ==
    /\ cmd.pc \in {"first", "second"}
    /\ cmd.builder = "build_transcode_command"
    /\ cmd' = [cmd EXCEPT
                  !.args[Due] =
                      build_transcode_command(
                          <<InputPath.dir, InputPath.stem, InputPath.ext>>,
                          <<InputPath.dir, InputPath.stem, ".av1-tmp.mkv">>,
                          cmd.metadata, cmd.probe[Due]),
                  !.pc = IF cmd.pc = "first" THEN "second" ELSE "built"]
    /\ UNCHANGED <<sup, heur, lib, wd, sched_vars, replace_vars, gate_vars, workflow_vars,
                   store_vars>>

NextCommand ==
    \/ BuildFfmpegCommand
    \/ BuildTranscodeCommand

SpecCommand == InitCommand /\ [][NextCommand]_vars

(***************************************************************************)
(* One watched directory in daemon mode: initial scan, event handler and   *)
(* the files each workflow reads, writes, renames and removes              *)
(* (main.rs 120-253, 344-511, 551-577; transcode.rs 56-61;                 *)
(* postprocess.rs 79-93, 166-171)                                          *)
(***************************************************************************)
\* Longest file name, in dot-separated parts, a workflow is started on.
MaxNameParts == 3

\* constants.rs line 45.
MEDIA_EXTENSIONS == {"mkv", "mp4", "avi"}

\* A path of the directory is its file name, split at the dots.
\* Path::file_stem: the name without its last part.
file_stem(path) == SubSeq(path, 1, Len(path) - 1)

\* Path::with_extension(ext): the stem, then ext.
with_extension(path, ext) == file_stem(path) \o ext

\* transcode.rs 56-61: with_file_name(format!("{}.av1-tmp.mkv", file_stem)).
output_path(path) == file_stem(path) \o <<"av1-tmp", "mkv">>

\* main.rs 354 and postprocess.rs 92.
skip_marker_path(path) == with_extension(path, <<"av1skip">>)

\* postprocess.rs 80.
why_path(path) == with_extension(path, <<"why", "txt">>)

\* main.rs 241-253 and 565-573: a file whose last part is a media extension.
\* dir_files is the set of files of the directory, by path.
is_media_file(dir_files, path) ==
    /\ path \in DOMAIN dir_files
    /\ path[Len(path)] \in MEDIA_EXTENSIONS

\* main.rs 551-577: the media files the scan lists.
ScanListing(dir_files) == {path \in DOMAIN dir_files : is_media_file(dir_files, path)}

\* Files copied into the library.
LibSources == {<<"movie", "mkv">>, <<"movie", "mp4">>}

\* The bytes a file holds: those of the source copied in under a name, those
\* an encode of a source wrote, or a note.
OriginalBytes(path) == [kind |-> "original", of |-> path]
EncodedBytes(source) == [kind |-> "encoded", of |-> source]
NoteBytes == [kind |-> "note", of |-> <<>>]
NoBytes == [kind |-> "none", of |-> <<>>]

\* The directory with the file at path written, and with it removed.
WriteAt(dir_files, path, bytes) ==
    [q \in DOMAIN dir_files \cup {path} |-> IF q = path THEN bytes ELSE dir_files[q]]

RemoveAt(dir_files, path) ==
    [q \in DOMAIN dir_files \ {path} |-> dir_files[q]]

\* A task slot of the library: position in process_file, the source it was
\* started on and the bytes the source had then, who started it, whether its
\* size gate passed, and the bytes its replacement put at the source.
LibIdle ==
    [pc |-> "idle", source |-> <<>>, origin |-> "none", source0 |-> NoBytes,
     gate_passed |-> FALSE, installed |-> NoBytes]

LibTask(dir_files, path, origin) ==
    [pc |-> "preflight", source |-> path, origin |-> origin,
     source0 |-> dir_files[path], gate_passed |-> FALSE, installed |-> NoBytes]

LibLive(s) == lib.tasks[s].pc \notin {"idle", "returned"}

LibFree == {s \in Slots : lib.tasks[s].pc = "idle"}

\* run_daemon has set up the watcher (131-140) and is about to scan.
InitLibrary ==
    /\ \E present \in SUBSET LibSources :
          lib = [pc |-> "scan",
                 dir_files |-> [path \in present |-> OriginalBytes(path)],
                 scanned |-> {}, events |-> {}, processing |-> {},
                 tasks |-> [s \in Slots |-> LibIdle]]
    /\ wd = [pc |-> "unused"]
    /\ sup = [pc |-> "unused"]
    /\ heur = [pc |-> "unused"]
    /\ cmd = [pc |-> "unused"]
    /\ config = [once_mode |-> FALSE, max_concurrent |-> MaxTasks, dry_run |-> FALSE]
    /\ main_pc = "exited"
    /\ files = <<>>
    /\ next_file = 1
    /\ set = {}
    /\ results = [success |-> 0, skipped |-> 0, failed |-> 0]
    /\ shutdown = FALSE
    /\ processing = {}
    /\ wf = [s \in Slots |-> IdleTask]
    /\ last_event = <<"none", "none">>
    /\ IdleReplace
    /\ IdleGate
    /\ IdleWorkflow
    /\ IdleStore

\* The variables no action of the library touches.
not_lib_vars == <<wd, sup, heur, cmd, sched_vars, replace_vars, gate_vars,
                  workflow_vars, store_vars>>

\* A file is copied into the watched directory: the watcher queues an event.
LibCopyIn ==
    /\ lib.pc # "unused"
    /\ \E path \in LibSources \ DOMAIN lib.dir_files :
          lib' = [lib EXCEPT !.dir_files = WriteAt(@, path, OriginalBytes(path)),
                             !.events = @ \cup {path}]
    /\ UNCHANGED not_lib_vars

\* main.rs 263-281: scan_directories lists the media files.
LibScan ==
    /\ lib.pc = "scan"
    /\ lib' = [lib EXCEPT !.pc = "batch", !.scanned = ScanListing(lib.dir_files)]
    /\ UNCHANGED not_lib_vars

\* main.rs 283-308: process_file is spawned on a listed file when a slot of
\* the JoinSet is free.
LibBatchSpawn ==
    /\ lib.pc = "batch"
    /\ LibFree # {}
    /\ \E path \in lib.scanned :
          /\ Len(path) <= MaxNameParts
          /\ path \in DOMAIN lib.dir_files
          /\ LET s == CHOOSE f \in LibFree : \A g \in LibFree : f <= g IN
             lib' = [lib EXCEPT !.scanned = @ \ {path},
                                !.tasks[s] = LibTask(lib.dir_files, path, "batch")]
    /\ UNCHANGED not_lib_vars

\* main.rs 311-326 and 148-150: all tasks joined, the daemon loop starts.
LibBatchReturn ==
    /\ lib.pc = "batch"
    /\ \A path \in lib.scanned : Len(path) > MaxNameParts \/ path \notin DOMAIN lib.dir_files
    /\ \A s \in Slots : lib.tasks[s].pc = "idle"
    /\ lib' = [lib EXCEPT !.pc = "daemon", !.scanned = {}]
    /\ UNCHANGED not_lib_vars

\* main.rs 197-233: a Create or Modify event for path. A media file that is
\* not in the in-flight set is inserted and process_file is spawned on it.
HandleFilesystemEvent ==
    /\ lib.pc = "daemon"
    /\ \E path \in lib.events :
          IF /\ is_media_file(lib.dir_files, path)
             /\ path \notin lib.processing
             /\ Len(path) <= MaxNameParts
             /\ LibFree # {}
          THEN LET s == CHOOSE f \in LibFree : \A g \in LibFree : f <= g IN
               lib' = [lib EXCEPT !.events = @ \ {path},
                                  !.processing = @ \cup {path},
                                  !.tasks[s] = LibTask(lib.dir_files, path, "event")]
          ELSE lib' = [lib EXCEPT !.events = @ \ {path}]
    /\ UNCHANGED not_lib_vars

\* process_file returns in the task of slot s.
LibReturn(l, s) == [l EXCEPT !.tasks[s].pc = "returned"]

\* main.rs 354-389: skip marker, fs::metadata, stability, ffprobe: the
\* workflow is skipped, fails, or goes on to the encode.
LibPreflight(s) ==
    /\ lib.tasks[s].pc = "preflight"
    /\ \E goes_on \in BOOLEAN :
          IF \/ skip_marker_path(lib.tasks[s].source) \in DOMAIN lib.dir_files
             \/ lib.tasks[s].source \notin DOMAIN lib.dir_files
             \/ ~goes_on
          THEN lib' = LibReturn(lib, s)
          ELSE lib' = [lib EXCEPT !.tasks[s].pc = "encode"]
    /\ UNCHANGED not_lib_vars

\* main.rs 397-443: ffmpeg -y reads the source and writes output_path, which
\* raises events for that path; the encode succeeds or fails.
LibEncode(s) ==
    /\ lib.tasks[s].pc = "encode"
    /\ \E ok \in BOOLEAN :
          LET source == lib.tasks[s].source IN
          IF source \in DOMAIN lib.dir_files
          THEN lib' = [lib EXCEPT
                          !.dir_files = WriteAt(@, output_path(source),
                                                EncodedBytes(source)),
                          !.events = @ \cup {output_path(source)},
                          !.tasks[s].pc = IF ok THEN "gate" ELSE "encode_failed"]
          ELSE lib' = [lib EXCEPT !.tasks[s].pc = "encode_failed"]
    /\ UNCHANGED not_lib_vars

\* main.rs 447-464 and postprocess.rs 166-171: cleanup_failed_transcode
\* removes the output if it exists.
LibEncodeFailed(s) ==
    /\ lib.tasks[s].pc = "encode_failed"
    /\ lib' = LibReturn([lib EXCEPT !.dir_files =
                            RemoveAt(@, output_path(lib.tasks[s].source))], s)
    /\ UNCHANGED not_lib_vars

\* main.rs 469-471: check_size_gate reads both files.
LibSizeGate(s) ==
    /\ lib.tasks[s].pc = "gate"
    /\ \E passed \in BOOLEAN :
          IF {lib.tasks[s].source, output_path(lib.tasks[s].source)}
                 \subseteq DOMAIN lib.dir_files
          THEN lib' = [lib EXCEPT !.tasks[s].pc = IF passed THEN "replace" ELSE "reject",
                                  !.tasks[s].gate_passed = passed]
          ELSE lib' = LibReturn(lib, s)
    /\ UNCHANGED not_lib_vars

\* main.rs 480-485: replace_file_atomic(file_path, output_path): the output
\* is renamed to the source's name; an error when either file is missing.
LibReplace(s) ==
    /\ lib.tasks[s].pc = "replace"
    /\ LET source == lib.tasks[s].source
           output == output_path(source)
       IN IF {source, output} \subseteq DOMAIN lib.dir_files
          THEN lib' = LibReturn(
                         [lib EXCEPT
                             !.dir_files = RemoveAt(WriteAt(@, source, @[output]), output),
                             !.tasks[s].installed = lib.dir_files[output]], s)
          ELSE lib' = LibReturn(lib, s)
    /\ UNCHANGED not_lib_vars

\* main.rs 487-509: write_why_file, write_skip_marker,
\* cleanup_failed_transcode.
LibReject(s) ==
    /\ lib.tasks[s].pc = "reject"
    /\ LET source == lib.tasks[s].source IN
       lib' = LibReturn(
                 [lib EXCEPT !.dir_files =
                     RemoveAt(WriteAt(WriteAt(@, why_path(source), NoteBytes),
                                      skip_marker_path(source), NoteBytes),
                              output_path(source))], s)
    /\ UNCHANGED not_lib_vars

\* main.rs 230-232 and 285-293: the event task removes its path from the
\* in-flight set; the batch task is joined.
LibTaskEnd(s) ==
    /\ lib.tasks[s].pc = "returned"
    /\ lib' = [lib EXCEPT
                  !.processing = IF lib.tasks[s].origin = "event"
                                 THEN @ \ {lib.tasks[s].source} ELSE @,
                  !.tasks[s] = LibIdle]
    /\ UNCHANGED not_lib_vars

NextLibrary ==
    \/ LibCopyIn
    \/ LibScan
    \/ LibBatchSpawn
    \/ LibBatchReturn
    \/ HandleFilesystemEvent
    \/ \E s \in Slots : LibPreflight(s)
    \/ \E s \in Slots : LibEncode(s)
    \/ \E s \in Slots : LibEncodeFailed(s)
    \/ \E s \in Slots : LibSizeGate(s)
    \/ \E s \in Slots : LibReplace(s)
    \/ \E s \in Slots : LibReject(s)
    \/ \E s \in Slots : LibTaskEnd(s)

SpecLibrary == InitLibrary /\ [][NextLibrary]_vars

(***************************************************************************)
(* execute_transcode: the watchdog thread, the supervising thread and the  *)
(* encoder process (executor.rs 100-186)                                   *)
(***************************************************************************)
\* Number of execute_transcode calls made one after the other.
MaxCalls == 2

Calls == 1..MaxCalls

\* The process id child.id() gave for a call: held by the running encoder,
\* by the exited encoder until child.wait() collects it, then free, then
\* perhaps given by the system to another process.
PidStates == {"unspawned", "running", "zombie", "free", "other"}

\* Lines 128-148: the watchdog thread of one call, before it is started.
NoWatchdog == [pc |-> "unstarted", signalled |-> "nothing"]

\* Line 124: the shared flag and the encoder of one call.
NoEncoder == [pid |-> "unspawned", status |-> "none", exited_early |-> FALSE,
              timed_out |-> FALSE, result |-> [success |-> FALSE, timed_out |-> FALSE]]

\* Lines 100-148: the encoder is spawned, and the watchdog thread when
\* options.timeout is Some. The caller then reads stderr.
StartCall(w, k) ==
    [w EXCEPT !.call = k, !.pc = "reading",
              !.encoder[k].pid = "running",
              !.watchdog[k].pc = IF w.timeout THEN "sleeping" ELSE "unstarted"]

\* options.timeout is None or Some; ExecuteOptions::default() has Some.
InitWatchdog ==
    /\ \E timeout \in BOOLEAN :
          wd = StartCall([pc |-> "reading", call |-> 1, timeout |-> timeout,
                          encoder |-> [k \in Calls |-> NoEncoder],
                          watchdog |-> [k \in Calls |-> NoWatchdog]], 1)
    /\ lib = [pc |-> "unused"]
    /\ sup = [pc |-> "unused"]
    /\ heur = [pc |-> "unused"]
    /\ cmd = [pc |-> "unused"]
    /\ config = [once_mode |-> TRUE, max_concurrent |-> 1, dry_run |-> FALSE]
    /\ main_pc = "exited"
    /\ files = <<>>
    /\ next_file = 1
    /\ set = {}
    /\ results = [success |-> 0, skipped |-> 0, failed |-> 0]
    /\ shutdown = FALSE
    /\ processing = {}
    /\ wf = [s \in Slots |-> IdleTask]
    /\ last_event = <<"none", "none">>
    /\ IdleReplace
    /\ IdleGate
    /\ IdleWorkflow
    /\ IdleStore

\* The variables no action of the watchdog model touches.
not_wd_vars == <<lib, sup, heur, cmd, sched_vars, replace_vars, gate_vars,
                 workflow_vars, store_vars>>

\* The encoder ends by itself, with status 0 or not; stderr reaches end of
\* file. It ended early when its watchdog was still asleep.
EncoderExit ==
    /\ wd.pc # "unused"
    /\ \E k \in Calls, status \in {"zero", "nonzero"} :
          /\ wd.encoder[k].pid = "running"
          /\ wd' = [wd EXCEPT !.encoder[k].pid = "zombie",
                              !.encoder[k].status = status,
                              !.encoder[k].exited_early =
                                  wd.watchdog[k].pc \in {"sleeping", "unstarted"}]
    /\ UNCHANGED not_wd_vars

\* Lines 130-131: thread::sleep(timeout) returns and the flag is set.
WatchdogExpire ==
    /\ wd.pc # "unused"
    /\ \E k \in Calls :
          /\ wd.watchdog[k].pc = "sleeping"
          /\ wd' = [wd EXCEPT !.watchdog[k].pc = "flagged",
                              !.encoder[k].timed_out = TRUE]
    /\ UNCHANGED not_wd_vars

\* Lines 134-139: libc::kill(child_id, SIGTERM), on whatever holds the
\* process id now. A running encoder ends with a signal status.
WatchdogKill ==
    /\ wd.pc # "unused"
    /\ \E k \in Calls :
          /\ wd.watchdog[k].pc = "flagged"
          /\ wd' = [wd EXCEPT
                       !.watchdog[k].pc = "done",
                       !.watchdog[k].signalled = wd.encoder[k].pid,
                       !.encoder[k].pid = IF @ = "running" THEN "zombie" ELSE @,
                       !.encoder[k].status = IF wd.encoder[k].pid = "running"
                                             THEN "signal" ELSE @]
    /\ UNCHANGED not_wd_vars

\* Lines 150-169: reader.lines() ends when the encoder has closed stderr.
SuperviseEndOfStderr ==
    /\ wd.pc = "reading"
    /\ wd.encoder[wd.call].pid = "zombie"
    /\ wd' = [wd EXCEPT !.pc = "wait"]
    /\ UNCHANGED not_wd_vars

\* Lines 171-174: child.wait() collects the exit status; the process id is
\* free from then on.
SuperviseWait ==
    /\ wd.pc = "wait"
    /\ wd' = [wd EXCEPT !.pc = "result", !.encoder[wd.call].pid = "free"]
    /\ UNCHANGED not_wd_vars

\* Lines 176-185: the flag is read and the TranscodeResult returned.
SuperviseResult ==
    /\ wd.pc = "result"
    /\ wd' = [wd EXCEPT !.pc = "returned",
                        !.encoder[wd.call].result =
                            TranscodeResult(wd.encoder[wd.call].status = "zero",
                                            wd.encoder[wd.call].timed_out)]
    /\ UNCHANGED not_wd_vars

\* The system gives a free process id to a process started later.
PidReuse ==
    /\ wd.pc # "unused"
    /\ \E k \in Calls :
          /\ wd.encoder[k].pid = "free"
          /\ wd' = [wd EXCEPT !.encoder[k].pid = "other"]
    /\ UNCHANGED not_wd_vars

\* main.rs 427-443: the next workflow calls execute_transcode.
ExecuteTranscodeAgain ==
    /\ wd.pc = "returned"
    /\ wd.call < MaxCalls
    /\ wd' = StartCall(wd, wd.call + 1)
    /\ UNCHANGED not_wd_vars

NextWatchdog ==
    \/ EncoderExit
    \/ WatchdogExpire
    \/ WatchdogKill
    \/ SuperviseEndOfStderr
    \/ SuperviseWait
    \/ SuperviseResult
    \/ PidReuse
    \/ ExecuteTranscodeAgain

SpecWatchdog == InitWatchdog /\ [][NextWatchdog]_vars

(***************************************************************************)
(* C1. A workflow that created a job record and exits, by success, by skip *)
(* or by an error return other than a failed save_job_state call, leaves a *)
(* terminal status as the last saved one, and saved one terminal status.   *)
(***************************************************************************)
TerminalSaves(saved) == {i \in DOMAIN saved : saved[i] \in JobTerminal}

C1_TerminalStatusAtExit ==
    \A s \in Slots :
        (wf[s].pc = "returned" /\ wf[s].saved # <<>> /\ ~wf[s].save_failed)
            => /\ wf[s].saved[Len(wf[s].saved)] \in JobTerminal
               /\ Cardinality(TerminalSaves(wf[s].saved)) = 1

(***************************************************************************)
(* C2. No two workflows run at the same time on the same source path,      *)
(* whether admitted by the batch scan or by filesystem events.             *)
(***************************************************************************)
C2_NoTwoWorkflowsOnOnePath ==
    \A s, t \in Slots :
        (s # t /\ Live(s) /\ Live(t)) => wf[s].path # wf[t].path

(***************************************************************************)
(* C3. Among the workflows admitted by handle_filesystem_event there is at *)
(* any time at most one per path: an event for a path that is in the       *)
(* in-flight set spawns nothing, so two events for one path that arrive    *)
(* while the first workflow is in flight give one workflow.                *)
(***************************************************************************)
EventTasks(path) ==
    {s \in Slots : wf[s].pc # "idle" /\ wf[s].origin = "event" /\ wf[s].path = path}

C3_OneEventWorkflowPerPath ==
    \A path \in Paths : Cardinality(EventTasks(path)) <= 1

\* A second event for a path has been ignored while its workflow is running.
C3_Witness ==
    \E path \in Paths :
        /\ last_event = <<"ignored", path>>
        /\ \E s \in EventTasks(path) : Live(s)

(***************************************************************************)
(* C4. The number of workflows running at the same time never exceeds      *)
(* max_concurrent, for batch and for event admissions alike.               *)
(***************************************************************************)
C4_AtMostMaxConcurrent ==
    Cardinality({s \in Slots : Live(s)}) <= config.max_concurrent

(***************************************************************************)
(* C5. A path stays in the in-flight set only while its task runs: on      *)
(* every way a workflow ends, abort of the task included, the path has     *)
(* been removed once the task is gone.                                     *)
(***************************************************************************)
C5_InFlightPathsAreRunning ==
    \A path \in processing :
        \E s \in EventTasks(path) : wf[s].pc \in {"start", "stable", "encoding", "returned"}

(***************************************************************************)
(* C6. A workflow that is in flight when shutdown is requested is never    *)
(* aborted: it goes on until process_file returns, in one-shot mode and in *)
(* daemon mode.                                                            *)
(***************************************************************************)
C6_InFlightWorkflowsFinish ==
    \A s \in Slots : wf[s].pc # "aborted"

(***************************************************************************)
(* C7. After replace_file_atomic returns Ok the original path holds the    *)
(* bytes the candidate held before the call, the candidate path is gone    *)
(* and no backup file remains.                                             *)
(***************************************************************************)
C7_OkLeavesNoBackup ==
    rp.result = "Ok"
        => /\ fs["original"] = rp.candidate0
           /\ fs["candidate"] = Absent
           /\ fs["backup"] = Absent

\* C7 as amended: after Ok the original path holds the candidate's prior
\* bytes and the candidate path is gone; no backup remains unless deleting it
\* failed, and then the backup still holds the original's prior bytes.
C7_OkSwappedBackupGoneUnlessDeleteFailed ==
    rp.result = "Ok"
        => /\ fs["original"] = rp.candidate0
           /\ fs["candidate"] = Absent
           /\ ~rp.delete_failed => fs["backup"] = Absent
           /\ rp.delete_failed => fs["backup"] = rp.original0

\* Ok was returned for a candidate whose bytes differ from the original's.
C7_Witness ==
    /\ rp.result = "Ok"
    /\ ~rp.delete_failed
    /\ rp.candidate0 # rp.original0

(***************************************************************************)
(* C8. When the first rename succeeds and the second fails, then after the *)
(* call the original path holds its prior bytes again, no backup remains   *)
(* and an error is returned.                                               *)
(***************************************************************************)
C8_SecondRenameFailureRestores ==
    (rp.pc = "done" /\ rp.rename2_failed)
        => /\ rp.result = "Err"
           /\ fs["original"] = rp.original0
           /\ fs["backup"] = Absent

\* C8 as amended: an error is returned; when the restoring rename succeeds
\* the original path holds its prior bytes again and no backup remains, and
\* when it fails the original path is empty and the backup holds those bytes.
C8_SecondRenameFailureRestoresUnlessRestoreFails ==
    (rp.pc = "done" /\ rp.rename2_failed)
        => /\ rp.result = "Err"
           /\ ~rp.restore_failed =>
                 (fs["original"] = rp.original0 /\ fs["backup"] = Absent)
           /\ rp.restore_failed =>
                 (fs["original"] = Absent /\ fs["backup"] = rp.original0)

\* The second rename failed and the original was restored.
C8_Witness ==
    /\ rp.pc = "done"
    /\ rp.rename2_failed
    /\ ~rp.restore_failed
    /\ fs["original"] = rp.original0

(***************************************************************************)
(* C9. At every instant of replace_file_atomic, a crash between two steps  *)
(* included, the original path exists and holds the complete original or   *)
(* the complete candidate bytes.                                           *)
(***************************************************************************)
C9_OriginalPathAlwaysWhole ==
    fs["original"] \in {rp.original0, rp.candidate0} \ {Absent}

C19_Admitted == next_file - 1

C19_Counted == results.success + results.skipped + results.failed

C19_EveryAdmittedWorkflowCountedOnce ==
    /\ main_pc \in {"batch_loop", "batch_drain"}
          => C19_Counted + Cardinality(set) = C19_Admitted
    /\ (main_pc = "batch_drain" /\ set = {})
          => /\ C19_Counted = C19_Admitted
             /\ ~shutdown => C19_Admitted = Len(files)

\* The batch is about to return: the first of two files failed or panicked,
\* the second was admitted all the same, and both are counted.
C19_Witness ==
    /\ main_pc = "batch_drain"
    /\ set = {}
    /\ ~shutdown
    /\ config.max_concurrent = 1
    /\ Len(files) = 2
    /\ results.failed >= 1
    /\ C19_Counted = 2

(***************************************************************************)
(* C11. When the size gate returned Failed, then at the exit of the        *)
(* workflow the reason sidecar and the skip marker exist beside the        *)
(* source, the source holds the bytes it had, the candidate output is gone *)
(* and the job's saved status is Skipped.                                  *)
(***************************************************************************)
C11_GateFailedLeavesSidecarsAndSkipped ==
    (run.pc = "exited" /\ run.gate = "Failed")
        => /\ disk.why
           /\ disk.marker
           /\ disk.source = run.source0
           /\ ~disk.candidate
           /\ job.status = "Skipped"

C17_ExecuteErrorSavedFailed ==
    (run.pc = "exited" /\ run.enc \in {"spawn_error", "read_error"})
        => /\ job.status = "Failed"
           /\ job.reason # "none"

(***************************************************************************)
(* C18. When the media probe fails, a job record for the file is saved     *)
(* with status Failed and a reason.                                        *)
(***************************************************************************)
C18_ProbeErrorSavedFailed ==
    (run.pc = "exited" /\ run.probe = "failed")
        => /\ job.status = "Failed"
           /\ job.reason # "none"

(***************************************************************************)
(* C20. A file rejected by a pre-flight check gets no job record and no    *)
(* encoder: a skip marker, a size below the minimum, an unstable size, no  *)
(* video stream, a stream already in the target codec, dry-run mode; for   *)
(* the marker and the minimum size the probe is not run either.            *)
(***************************************************************************)
C20_MarkerOrTooSmall ==
    \/ run.marker0
    \/ /\ src.file_size >= 0
       /\ src.file_size < src.min_bytes

C20_RejectedAfterSizeCheck ==
    \/ src.stable = "no"
    \/ /\ src.video_streams # <<"unread">>
       /\ \/ src.video_streams = <<>>
          \/ \E i \in DOMAIN src.video_streams :
                src.video_streams[i] \in {"av1", "AV1"}
          \/ config.dry_run

C20_PreflightRejectionLeavesNoTrace ==
    /\ (C20_MarkerOrTooSmall \/ C20_RejectedAfterSizeCheck)
          => /\ job = NoJob
             /\ ~run.spawned
             /\ run.pc = "exited"
             /\ run.result = "Skipped"
    /\ C20_MarkerOrTooSmall => run.probe = "none"

\* A file whose second stream is in the target codec, spelled in capitals,
\* has been probed and skipped.
C20_Witness ==
    /\ run.pc = "exited"
    /\ run.probe = "done"
    /\ src.video_streams = <<"h264", "AV1">>
    /\ ~config.dry_run

(***************************************************************************)
(* C13. If the process crashes at any point during save_job_state, the     *)
(* record file of that job is afterwards absent or a complete, parseable   *)
(* serialization of a state passed to save_job_state for that id; it is    *)
(* never an empty or partly written document.                              *)
(***************************************************************************)
C13_CrashLeavesRecordAbsentOrComplete ==
    store.crashed =>
        \A id \in Ids :
            LET entry == jobs_dir.entries[file_name(id)] IN
            \/ entry.kind = "none"
            \/ /\ Parses(entry.text)
               /\ from_str(entry.text) \in {j \in JobSamples : j.id = id}

(***************************************************************************)
(* C14. After a sequence of successful save_job_state calls into one       *)
(* directory, load_all_jobs returns exactly one record for each job id     *)
(* that was saved, equal in id, status, paths and sizes to the state saved *)
(* last under that id; saving an id again makes no second record.          *)
(***************************************************************************)
C14_Saved == {id \in Ids : store.last[id] # <<>>}

C14_LoadReturnsLastSavedOnce ==
    (loaded.result = "Ok" /\ store.all_ok) =>
        /\ Len(loaded.jobs) = Cardinality(C14_Saved)
        /\ \A id \in C14_Saved :
              \E i \in 1..Len(loaded.jobs) : loaded.jobs[i] = store.last[id][1]

\* Two successful saves of one id, the second with another status, into a
\* directory that holds foreign entries; one record comes back, the second.
C14_Witness ==
    /\ loaded.result = "Ok"
    /\ store.all_ok
    /\ store.saves = MaxSaves
    /\ jobs_dir.entries[[stem |-> "sub", ext |-> "json"]].kind = "dir"
    /\ Len(loaded.jobs) = 1
    /\ loaded.jobs[1].status = "Running"

(***************************************************************************)
(* C15. load_all_jobs never fails because of what a record holds: a record *)
(* file that cannot be read as a job is skipped and every valid record of  *)
(* the directory is returned; when the directory does not exist the result *)
(* is the empty list and no error.                                         *)
(***************************************************************************)
C15_ValidNames ==
    {n \in Names : /\ extension(n) = "json"
                   /\ jobs_dir.entries[n].kind = "file"
                   /\ Parses(jobs_dir.entries[n].text)}

C15_LoadSkipsWhatIsNoJob ==
    loaded.result \in {"Ok", "Err"} =>
        /\ ~jobs_dir.exists => loaded = [result |-> "Ok", jobs |-> <<>>]
        /\ (jobs_dir.exists /\ store.read_dir_ok) =>
              /\ loaded.result = "Ok"
              /\ Len(loaded.jobs) = Cardinality(C15_ValidNames)
              /\ \A n \in C15_ValidNames :
                    \E i \in 1..Len(loaded.jobs) :
                        loaded.jobs[i] = from_str(jobs_dir.entries[n].text)

\* A load of a directory that holds a directory named like a record, a
\* truncated record and a whole record: the whole record is returned.
C15_Witness ==
    /\ loaded.result = "Ok"
    /\ jobs_dir.entries[[stem |-> "sub", ext |-> "json"]].kind = "dir"
    /\ \E id \in Ids : /\ jobs_dir.entries[file_name(id)].kind = "file"
                       /\ ~Parses(jobs_dir.entries[file_name(id)].text)
    /\ Len(loaded.jobs) = 1

(***************************************************************************)
(* C21. For every stderr stream and every max_stderr_lines N,              *)
(* execute_transcode keeps at most N lines and at most one truncation      *)
(* marker: the first N lines as they were read, the marker once iff more   *)
(* than N lines were read, and nothing after the marker.                   *)
(***************************************************************************)
C21_MarkerAt == {i \in 1..Len(sup.stderr_lines) : sup.stderr_lines[i] = TruncationMarker}

C21_AtMostNLinesAndOneMarker ==
    LET N == sup.max_stderr_lines
        read == Len(sup.input)
        kept == sup.stderr_lines
    IN /\ Len(kept) <= N + 1
       /\ Cardinality({i \in 1..Len(kept) : kept[i] # TruncationMarker}) <= N
       /\ \A i \in 1..Len(kept) : (i <= N /\ i <= read) => kept[i] = sup.input[i]
       /\ Cardinality(C21_MarkerAt) = IF read > N THEN 1 ELSE 0
       /\ \A i \in C21_MarkerAt : i = Len(kept)
       /\ read <= N => kept = sup.input

\* Two lines more than the limit were read: one line and the marker are kept.
C21_Witness ==
    /\ sup.max_stderr_lines = 1
    /\ Len(sup.input) = 3
    /\ sup.stderr_lines = <<sup.input[1], TruncationMarker>>

(***************************************************************************)
(* C22. For every stderr line, progress parsing never aborts the           *)
(* supervision; a line without a frame count, with frame 0, or with a      *)
(* telemetry value (frame, fps, size, time, speed) that cannot be parsed   *)
(* delivers no progress event; every other progress line delivers exactly  *)
(* one event, which carries its frame count.                               *)
(***************************************************************************)
C22_Values(line, key) ==
    {line[i].value : i \in {j \in 1..Len(line) : line[j].eq /\ line[j].key = key}}

C22_TimeParses(text) ==
    LET parts == split_colon(text, <<>>) IN
    Len(parts) = 3 /\ \A i \in 1..3 : parse_f64(parts[i]).ok

C22_SizeParses(text) ==
    \/ parse_u64(text).ok
    \/ \E unit \in {<<"k", "B">>, <<"M", "B">>, <<"G", "B">>} :
          strip_suffix(text, unit).ok /\ parse_u64(strip_suffix(text, unit).value).ok

C22_SpeedParses(text) ==
    strip_suffix(text, <<"x">>).ok /\ parse_f64(strip_suffix(text, <<"x">>).value).ok

C22_Unparsable(line) ==
    \/ \E v \in C22_Values(line, "frame") : ~parse_u64(v).ok
    \/ \E v \in C22_Values(line, "fps") : ~parse_f64(v).ok
    \/ \E v \in C22_Values(line, "size") : ~C22_SizeParses(v)
    \/ \E v \in C22_Values(line, "time") : ~C22_TimeParses(v)
    \/ \E v \in C22_Values(line, "speed") : ~C22_SpeedParses(v)

C22_EventIffWholeProgressLine ==
    Len(sup.input) > 0 =>
        LET line == sup.input[Len(sup.input)] IN
        /\ sup.pc # "panicked"
        /\ IF \/ C22_Values(line, "frame") = {}
              \/ \E v \in C22_Values(line, "frame") : unwrap_or(parse_u64(v), 0) = 0
              \/ C22_Unparsable(line)
           THEN sup.delivered = 0
           ELSE /\ sup.delivered = 1
                /\ \E v \in C22_Values(line, "frame") : sup.frame = parse_u64(v).value

C24_HighSurfaceIffTenBits ==
    (heur.pc = "returned" /\ heur.call = "choose_surface") =>
        /\ heur.surface = "p010" <=> heur.bit_depth >= 10
        /\ heur.surface = "nv12" <=> heur.bit_depth < 10

\* Ten bits exactly got the high surface.
C24_Witness ==
    /\ heur.pc = "returned"
    /\ heur.call = "choose_surface"
    /\ heur.bit_depth = 10
    /\ heur.surface = "p010"

(***************************************************************************)
(* C25. is_webrip_like(meta) is true if and only if the format name        *)
(* contains mp4, mov or webm in any case, or some video stream has         *)
(* avg_frame_rate different from r_frame_rate, or some video stream has an *)
(* odd width or an odd height; with all three false, a descriptor without  *)
(* video streams included, it is false.                                    *)
(***************************************************************************)
C25_FormatNamed(meta) ==
    \E name \in {<<"m", "p", "4">>, <<"m", "o", "v">>, <<"w", "e", "b", "m">>} :
        Contains(LowerText(meta.format_name), name)

C25_SomeVfr(meta) ==
    \E i \in 1..Len(meta.video_streams) :
        meta.video_streams[i].avg_frame_rate # meta.video_streams[i].r_frame_rate

C25_SomeOdd(meta) ==
    \E i \in 1..Len(meta.video_streams) :
        \/ meta.video_streams[i].width % 2 = 1
        \/ meta.video_streams[i].height % 2 = 1

C25_WebripIffOneOfThree ==
    (heur.pc = "returned" /\ heur.call = "is_webrip_like") =>
        heur.webrip <=> \/ C25_FormatNamed(heur.meta)
                        \/ C25_SomeVfr(heur.meta)
                        \/ C25_SomeOdd(heur.meta)

\* The odd height of the second stream alone makes the file WebRip-like.
C25_Witness ==
    /\ heur.pc = "returned"
    /\ heur.call = "is_webrip_like"
    /\ ~C25_FormatNamed(heur.meta)
    /\ ~C25_SomeVfr(heur.meta)
    /\ Len(heur.meta.video_streams) = 2
    /\ heur.meta.video_streams[1].height % 2 = 0
    /\ heur.meta.video_streams[2].width % 2 = 0
    /\ heur.meta.video_streams[2].height % 2 = 1
    /\ heur.webrip
(***************************************************************************)
(* C26. build_ffmpeg_command puts -fflags +genpts -copyts -start_at_zero   *)
(* right before the input argument and -vsync 0 -avoid_negative_ts         *)
(* make_zero right after the stream mapping exactly when params.is_webrip  *)
(* is set; without it none of these flags appears, and the rest of the     *)
(* argument vector is the same in both cases.                              *)
(***************************************************************************)
RECURSIVE IndexOf(_, _, _)
IndexOf(args, arg, i) ==
    IF i > Len(args) THEN 0
    ELSE IF args[i] = arg THEN i
    ELSE IndexOf(args, arg, i + 1)

C26_InputFlags == Fixed(<<"-fflags", "+genpts", "-copyts", "-start_at_zero">>)

C26_SyncFlags == Fixed(<<"-vsync", "0", "-avoid_negative_ts", "make_zero">>)

C26_FlagWords ==
    {<<"-fflags">>, <<"+genpts">>, <<"-copyts">>, <<"-start_at_zero">>,
     <<"-vsync">>, <<"-avoid_negative_ts">>, <<"make_zero">>}

\* The four arguments before -i and the four after "-map_chapters 0".
C26_BeforeInput(args) ==
    SubSeq(args, IndexOf(args, <<"-i">>, 1) - 4, IndexOf(args, <<"-i">>, 1) - 1)

C26_AfterMapping(args) ==
    SubSeq(args, IndexOf(args, <<"-map_chapters">>, 1) + 2,
                 IndexOf(args, <<"-map_chapters">>, 1) + 5)

\* The vector without these two groups of four.
C26_Rest(args) ==
    SubSeq(args, 1, IndexOf(args, <<"-i">>, 1) - 5)
    \o SubSeq(args, IndexOf(args, <<"-i">>, 1), IndexOf(args, <<"-map_chapters">>, 1) + 1)
    \o SubSeq(args, IndexOf(args, <<"-map_chapters">>, 1) + 6, Len(args))

C26_FlagsAsWebrip(args, is_webrip) ==
    IF is_webrip
    THEN /\ C26_BeforeInput(args) = C26_InputFlags
         /\ C26_AfterMapping(args) = C26_SyncFlags
         /\ \A i \in 1..Len(C26_Rest(args)) : C26_Rest(args)[i] \notin C26_FlagWords
    ELSE \A i \in 1..Len(args) : args[i] \notin C26_FlagWords

C26_WebripFlagsIffWebrip ==
    (cmd.pc = "built" /\ cmd.builder = "build_ffmpeg_command"
        /\ cmd.probe[1] = cmd.probe[2]) =>
        /\ \A b \in 1..2 : C26_FlagsAsWebrip(cmd.args[b], cmd.is_webrip[b])
        /\ (cmd.is_webrip[1] = cmd.is_webrip[2] => cmd.args[1] = cmd.args[2])
        /\ (cmd.is_webrip[1] /\ ~cmd.is_webrip[2] => C26_Rest(cmd.args[1]) = cmd.args[2])
        /\ (~cmd.is_webrip[1] /\ cmd.is_webrip[2] => cmd.args[1] = C26_Rest(cmd.args[2]))

C26_Witness ==
    /\ cmd.pc = "built"
    /\ cmd.builder = "build_ffmpeg_command"
    /\ cmd.probe[1] = cmd.probe[2]
    /\ cmd.is_webrip = <<TRUE, FALSE>>
    /\ Len(cmd.args[1]) = Len(cmd.args[2]) + 8

(***************************************************************************)
(* C27. Two builds with the same parameters and the same render-device     *)
(* probing result give the same argument vector, and two builds that       *)
(* differ only in the probing result differ only in the hardware           *)
(* device-initialization arguments, for build_ffmpeg_command and for       *)
(* build_transcode_command.                                                *)
(***************************************************************************)
\* The vector without "-init_hw_device <device> -filter_hw_device <name>".
C27_WithoutDeviceInit(args) ==
    SubSeq(args, 1, IndexOf(args, <<"-init_hw_device">>, 1) - 1)
    \o SubSeq(args, IndexOf(args, <<"-init_hw_device">>, 1) + 4, Len(args))

C27_ProbingOnlyInDeviceInit ==
    (cmd.pc = "built" /\ cmd.is_webrip[1] = cmd.is_webrip[2]) =>
        /\ (cmd.probe[1] = cmd.probe[2] => cmd.args[1] = cmd.args[2])
        /\ C27_WithoutDeviceInit(cmd.args[1]) = C27_WithoutDeviceInit(cmd.args[2])

(***************************************************************************)
(* C28. In process_all_files the set of running tasks never holds more     *)
(* than max_concurrent tasks, and a task is added to it only in the batch  *)
(* loop, when the set is below the limit and the shutdown flag, polled     *)
(* after the wait for the slot, is not set.                                *)
(***************************************************************************)
C28_SpawnBelowLimitAfterShutdownCheck ==
    /\ [](Cardinality(set) <= config.max_concurrent)
    /\ [][(set' \ set # {}) =>
            /\ main_pc = "batch_loop"
            /\ Cardinality(set) < config.max_concurrent
            /\ ~shutdown
            /\ Cardinality(set') = Cardinality(set) + 1]_vars

\* The set is full again after a task was joined to make room.
C28_Witness ==
    /\ main_pc = "batch_drain"
    /\ Cardinality(set) = config.max_concurrent
    /\ results.success + results.skipped + results.failed >= 1

(***************************************************************************)
(* C29. A TranscodeResult never has success and timed_out both set; a      *)
(* workflow whose result is timed out or not successful never reaches the  *)
(* size gate or the replacement; and the source is replaced only after a   *)
(* result with success set.                                                *)
(***************************************************************************)
\* The run has reached check_size_gate, or went on from it.
C29_ReachedSizeGate ==
    \/ run.pc \in {"replace", "reject"}
    \/ run.gate # "none"
    \/ run.failed_call \in {"check_size_gate", "replace_file_atomic"}

C29_GateAndReplaceOnlyAfterSuccess ==
    /\ [](~(run.outcome.success /\ run.outcome.timed_out))
    /\ [](C29_ReachedSizeGate => (run.outcome.success /\ ~run.outcome.timed_out))
    /\ [][(run'.pc \in {"replace", "reject"} /\ run.pc \notin {"replace", "reject"})
             => run.outcome.success]_vars
    /\ [][disk'.source # disk.source => (run.pc = "replace" /\ run.outcome.success)]_vars

\* A run whose encode timed out has ended with the source untouched.
C29_Witness ==
    /\ run.pc = "exited"
    /\ run.outcome.timed_out
    /\ run.gate = "none"
    /\ job = [status |-> "Failed", reason |-> "Timeout"]
    /\ disk.source = "original"

(***************************************************************************)
(* C30. replace_file_atomic never loses the original content: in every     *)
(* state during and after the call, whichever renames and deletes fail and *)
(* wherever the process dies, the candidate's bytes are in place at the    *)
(* original path, or the original's bytes are at the original path or at   *)
(* the backup path; and the backup is deleted only after the candidate has *)
(* been renamed to the original path.                                      *)
(***************************************************************************)
\* The candidate has been renamed to the original path.
C30_CandidateInPlace ==
    /\ rp.candidate0 # Absent
    /\ fs["original"] = rp.candidate0
    /\ fs["candidate"] = Absent

C30_OriginalBytesNeverLost ==
    /\ [](\/ C30_CandidateInPlace
          \/ fs["original"] = rp.original0
          \/ fs["backup"] = rp.original0)
    /\ [][(fs["backup"] # Absent /\ fs'["backup"] = Absent
             /\ fs'["original"] = fs["original"])
             => (C30_CandidateInPlace /\ rp.pc = "remove_backup")]_vars

\* Both the second rename and the restoring rename failed: the original's
\* bytes are at the backup path only.
C30_Witness ==
    /\ rp.pc = "done"
    /\ rp.restore_failed
    /\ fs["original"] = Absent
    /\ fs["backup"] = rp.original0

(***************************************************************************)
(* C31. Two workflows in flight at the same time on distinct source paths  *)
(* never share a temporary output path or a skip-marker path, and the      *)
(* bytes a workflow renames into its source path were produced by the      *)
(* encode of that same source.                                             *)
(***************************************************************************)
C31_DistinctSourcesDistinctOutputs ==
    /\ \A s, u \in Slots :
          (LibLive(s) /\ LibLive(u) /\ lib.tasks[s].source # lib.tasks[u].source)
             => /\ output_path(lib.tasks[s].source) # output_path(lib.tasks[u].source)
                /\ skip_marker_path(lib.tasks[s].source)
                      # skip_marker_path(lib.tasks[u].source)
    /\ \A s \in Slots :
          lib.tasks[s].installed # NoBytes
             => lib.tasks[s].installed = EncodedBytes(lib.tasks[s].source)

(***************************************************************************)
(* C34. The bytes at a source path are changed only by the replacement     *)
(* step of a workflow whose size gate passed, and a workflow that ends     *)
(* before its size gate passes leaves its source path existing with the    *)
(* bytes it had when the workflow started.                                 *)
(***************************************************************************)
\* The file at path is not the same before and after the step.
C34_Changed(path) ==
    \/ (path \in DOMAIN lib.dir_files) # (path \in DOMAIN lib'.dir_files)
    \/ /\ path \in DOMAIN lib.dir_files
       /\ path \in DOMAIN lib'.dir_files
       /\ lib.dir_files[path] # lib'.dir_files[path]

C34_SourceChangedOnlyByReplacement ==
    [][\A s \in Slots :
          /\ (LibLive(s) /\ C34_Changed(lib.tasks[s].source))
                => \E u \in Slots : /\ lib.tasks[u].pc = "replace"
                                    /\ lib.tasks[u].gate_passed
                                    /\ lib'.tasks[u].pc = "returned"
          /\ (LibLive(s) /\ lib'.tasks[s].pc = "returned" /\ ~lib'.tasks[s].gate_passed)
                => /\ lib.tasks[s].source \in DOMAIN lib'.dir_files
                   /\ lib'.dir_files[lib.tasks[s].source] = lib.tasks[s].source0]_vars

(***************************************************************************)
(* C38. process_file is never invoked, by the directory scan or by the     *)
(* event handler, on the temporary output file of a workflow, a name of    *)
(* the form <stem>.av1-tmp.mkv.                                            *)
(***************************************************************************)
\* The name ends in .av1-tmp.mkv.
C38_IsTemporaryOutput(path) ==
    /\ Len(path) >= 3
    /\ SubSeq(path, Len(path) - 1, Len(path)) = <<"av1-tmp", "mkv">>

C38_NoWorkflowOnTemporaryOutput ==
    \A s \in Slots :
        lib.tasks[s].pc # "idle" => ~C38_IsTemporaryOutput(lib.tasks[s].source)

(***************************************************************************)
(* C32. execute_transcode reports timed_out only if the watchdog expired   *)
(* before the encoder exited: in every interleaving of the two threads an  *)
(* encoder that exits with status 0 before the timeout elapses gives a     *)
(* result with success set and timed_out clear.                            *)
(***************************************************************************)
C32_EarlyExitIsSuccess ==
    \A k \in Calls :
        (/\ (wd.call > k \/ (wd.call = k /\ wd.pc = "returned"))
         /\ wd.encoder[k].status = "zero"
         /\ wd.encoder[k].exited_early)
            => (wd.encoder[k].result.success /\ ~wd.encoder[k].result.timed_out)

(***************************************************************************)
(* C33. The watchdog never sends its termination signal to the encoder's   *)
(* process id after the encoder has exited and been waited on.             *)
(***************************************************************************)
C33_NoSignalAfterWait ==
    \A k \in Calls : wd.watchdog[k].signalled \notin {"free", "other"}

(***************************************************************************)
(* C37. process_all_files terminates for every --concurrent value the      *)
(* command line accepts, 0 included, when every workflow terminates: in    *)
(* the end every file was admitted or the loop stopped on shutdown, all    *)
(* admitted workflows are joined and the summary is returned.              *)
(***************************************************************************)
C37_ProcessAllFilesReturns ==
    <>(main_pc = "exited" /\ set = {} /\ (next_file > Len(files) \/ shutdown))

(***************************************************************************)
(* C36. A load_all_jobs call that runs while save_job_state saves a job    *)
(* whose record was saved before returns, for that job, the record saved   *)
(* before or the record being saved: the job is never missing from the     *)
(* result and never returned in part.                                      *)
(***************************************************************************)
C36_ConcurrentLoadSeesOldOrNew ==
    (store.pc \in {"open", "write"} /\ store.prior # <<>> /\ store.seen.result = "Ok")
       => \E i \in 1..Len(store.seen.jobs) :
             /\ store.seen.jobs[i].id = store.job.id
             /\ store.seen.jobs[i] \in {store.prior[1], store.job}

(***************************************************************************)
(* C35. The statuses saved for one job id are monotone: the first is       *)
(* Pending, the only moves are Pending to Running and Running to Success,  *)
(* Failed or Skipped, nothing follows a terminal status and Pending never  *)
(* returns; every saved Running or terminal record has started_at set and  *)
(* every saved terminal record has finished_at set as well.                *)
(***************************************************************************)
C35_SavedStatusesMonotone ==
    /\ run.saved # <<>> => run.saved[1].status = "Pending"
    /\ \A i \in 1..(Len(run.saved) - 1) :
          \/ run.saved[i].status = "Pending" /\ run.saved[i + 1].status = "Running"
          \/ run.saved[i].status = "Running" /\ run.saved[i + 1].status \in JobTerminal
    /\ \A i \in 1..Len(run.saved) :
          /\ run.saved[i].status # "Pending" => run.saved[i].started_at
          /\ run.saved[i].status \in JobTerminal => run.saved[i].finished_at

\* A job that was saved three times, last with the status Skipped.
C35_Witness ==
    /\ Len(run.saved) = 3
    /\ run.saved[3].status = "Skipped"
    /\ run.saved[3].finished_at

====
